---- MODULE Spec2Model ----
(***************************************************************************)
(* A model of the core of the docker 1.2.0 daemon:                         *)
(*   - pkg/signal/trap.go       the signal trap (SpecTrap)                 *)
(*   - daemon/daemon.go         boot, shutdown hooks, restore, register    *)
(* Each part is a specification of its own over the module's variables;    *)
(* the variables a specification does not use keep their initial value.    *)
(***************************************************************************)
EXTENDS Integers, Sequences, FiniteSets, TLC

(***************************************************************************)
(* Bounds of the model.                                                    *)
(***************************************************************************)
\* The number of signals the operating system sends to the process.
MaxSignals == 4

(***************************************************************************)
(* Program constants.                                                      *)
(***************************************************************************)
SIGINT == 2
SIGQUIT == 3
SIGTERM == 15
\* The value interruptCount is compared with before a handler counts itself.
ForceThreshold == 3
\* Exit status of a Go program killed by a signal nobody subscribed to
\* (the runtime's own SIGQUIT handling: stack dump, exit status 2).
GoRuntimeQuitStatus == 2

VARIABLES
    \* ---- pkg/signal/trap.go ----
    debugEnv,        \* os.Getenv("DEBUG") != ""
    subscribed,      \* the signals handed to gosignal.Notify
    chanC,           \* the channel c (capacity 1)
    sent,            \* how many signals the OS has sent so far
    handlers,        \* the handler goroutines, in the order they were spawned
    interruptCount,  \* the shared uint32 counter
    cleanupCalls,    \* how often cleanup() was invoked
    cleanupState,    \* "idle", "running", "done"
    exited,          \* the process has called os.Exit (or was killed)
    exitStatus,      \* its exit status
    \* ---- daemon/daemon.go: boot and shutdown ----
    pidfileCfg,      \* config.Pidfile != ""
    pidfileExists,   \* the pidfile is on disk
    bootPc,          \* index into BootOrder of the next boot step
    bootLog,         \* the boot steps completed so far, in order
    activated,       \* the activate channel of the listen buffers was closed
    onShutdown,      \* the engine's shutdown callbacks, in registration order
    shutPc,          \* "idle", "hooks", "daemonhook", "done": Engine.Shutdown
    bootAtShutdown,  \* the value of bootPc when Engine.Shutdown was called (0: not yet)
    pending,         \* callbacks Engine.Shutdown has still to run
    hookPc,          \* index into DaemonHookSteps of the daemon hook's next step
    shutdownLog,     \* the shutdown steps completed so far, in order
    hookErrors,      \* the shutdown steps that returned an error (logged)
    cstate,          \* per container: "absent", "stopped", "running"
    ignoresTerm,     \* per container: its process ignores SIGTERM
    gotTerm,         \* per container: its process was sent SIGTERM
    workers,         \* per container: daemon.shutdown's goroutine
    \* ---- daemon/daemon.go: restore, load, register ----
    currentDriver,   \* daemon.driver.String()
    disk,            \* per container directory: what config.json holds
    graph,           \* the name graph: path -> container id (NoId: no entry)
    proc,            \* per container: "none", "alive", "dead", "killed" (by the daemon)
    mem,             \* per container: the Container object made by load
    store,           \* daemon.containers
    idIndex,         \* daemon.idIndex
    restorePc,       \* "readdir", "load", "graph", "leftover", "done"
    todo,            \* the directory entries still to load
    walk,            \* the name-graph entities still to visit
    kept,            \* the local map containers of restore
    registeredContainers, \* the local slice of restore
    regResult,       \* per container: what register returned ("none": not called)
    restoreResult,   \* what restore returned ("none": not yet)
    autoRestart,     \* daemon.config.AutoRestart
    policy,          \* per container directory: hostConfig.RestartPolicy.Name
    \* ---- daemon/daemon.go: newContainer, generateIdAndName, reserveName ----
    req,             \* per Create request: where it stands in newContainer
    \* ---- daemon/networkdriver/bridge/driver.go ----
    currentInterfaces, \* per container id: its networkInterface (NoIface: none)
    ipAllocated,     \* ipallocator: the addresses of the bridge network in use
    mapped,          \* portmapper: host address -> container address (NotMapped)
    netJob,          \* the network job being run, or the last one run
    \* ---- daemon/networkdriver/bridge/driver.go: InitDriver ----
    bridges,         \* the host's bridge interfaces: exists, address, up
    postrouting,     \* iptables: the POSTROUTING chain of the nat table, top first
    forward,         \* iptables: the FORWARD chain of the filter table, top first
    dockerChain,     \* iptables: the DOCKER chain exists
    ipForwarding,    \* /proc/sys/net/ipv4/ip_forward holds 1
    netHandlers,     \* the engine has the handlers allocate_interface, ... registered
    initJob,         \* the last init_networkdriver job: its environment and result
    \* ---- pkg/listenbuffer ----
    ready,           \* per listener: defaultListener.ready
    acceptPc,        \* per listener: "idle", "waiting" (on activate), "wrapped"
    handed,          \* per listener: how many connections Accept has returned
    \* ---- bridge driver: the link job ----
    linkJob,         \* the last link job, and the -I job it may undo
    \* ---- Daemon.Pause / Daemon.Unpause ----
    state,           \* per container: container.State (Running, Paused)
    frozen,          \* per container: the exec driver has its processes frozen
    pauseJob,        \* the last Pause or Unpause call and what it returned
    \* ---- restore run by a second daemon ----
    firstRestore     \* what the restore of the previous daemon registered

trapVars == <<debugEnv, subscribed, chanC, sent, handlers, interruptCount,
              cleanupCalls, cleanupState, exited, exitStatus>>

daemonVars == <<pidfileCfg, pidfileExists, bootPc, bootLog, activated,
                onShutdown, shutPc,
                bootAtShutdown, pending,
                hookPc, shutdownLog, hookErrors, cstate, ignoresTerm, gotTerm,
                workers>>

restoreVars == <<currentDriver, disk, graph, proc, mem, store, idIndex,
                 restorePc, todo, walk, kept, registeredContainers, regResult,
                 restoreResult, autoRestart, policy>>

configVars == <<autoRestart, policy>>

createVars == <<req>>

netVars == <<currentInterfaces, ipAllocated, mapped, netJob>>

bridgeVars == <<bridges, postrouting, forward, dockerChain, ipForwarding,
                netHandlers, initJob>>

listenVars == <<ready, acceptPc, handed>>

linkVars == <<linkJob>>

pauseVars == <<state, frozen, pauseJob>>

historyVars == <<firstRestore>>

vars == <<trapVars, daemonVars, restoreVars, createVars, netVars, bridgeVars,
          listenVars, linkVars, pauseVars, historyVars>>

\* The containers of the model.
ContainerIds == {"c1", "c2"}

Reverse(s) == [i \in 1..Len(s) |-> s[Len(s) + 1 - i]]

Signals == {SIGINT, SIGTERM, SIGQUIT}

(***************************************************************************)
(* pkg/signal/trap.go: Trap                                                *)
(***************************************************************************)

\* signals := {os.Interrupt, SIGTERM}; SIGQUIT is appended when DEBUG is empty.
TrapSignals_DebugSubscribes(debug) ==
    IF debug THEN {SIGINT, SIGTERM, SIGQUIT} ELSE {SIGINT, SIGTERM}

TrapSignals(debug) ==
    IF ~debug THEN {SIGINT, SIGTERM, SIGQUIT} ELSE {SIGINT, SIGTERM}

\* State right after Trap(cleanup) has returned: the channel is made, the
\* signals are subscribed, the dispatching goroutine waits on the channel.
TrapInit ==
    /\ debugEnv \in BOOLEAN
    /\ subscribed = TrapSignals(debugEnv)
    /\ chanC = <<>>
    /\ sent = 0
    /\ handlers = <<>>
    /\ interruptCount = 0
    /\ cleanupCalls = 0
    /\ cleanupState = "idle"
    /\ exited = FALSE
    /\ exitStatus = 0

\* The OS sends signal s. A subscribed signal goes into the channel unless
\* its buffer is full (os/signal never blocks: the signal is dropped); an
\* unsubscribed SIGQUIT is handled by the Go runtime, which ends the process.
SignalArrives(s) ==
    /\ ~exited
    /\ sent < MaxSignals
    /\ sent' = sent + 1
    /\ IF s \in subscribed
       THEN /\ chanC' = IF Len(chanC) < 1 THEN Append(chanC, s) ELSE chanC
            /\ UNCHANGED <<exited, exitStatus>>
       ELSE /\ exited' = TRUE
            /\ exitStatus' = GoRuntimeQuitStatus
            /\ UNCHANGED chanC
    /\ UNCHANGED <<debugEnv, subscribed, handlers, interruptCount,
                   cleanupCalls, cleanupState>>
    /\ UNCHANGED daemonVars
    /\ UNCHANGED <<restoreVars, createVars, netVars, bridgeVars, listenVars, linkVars,
                   pauseVars, historyVars>>

\* for sig := range c { go func(sig) {...}(sig) }
Dispatch ==
    /\ ~exited
    /\ Len(chanC) > 0
    /\ handlers' = Append(handlers, [sig |-> Head(chanC), pc |-> "start"])
    /\ chanC' = Tail(chanC)
    /\ UNCHANGED <<debugEnv, subscribed, sent, interruptCount, cleanupCalls,
                   cleanupState, exited, exitStatus>>
    /\ UNCHANGED daemonVars
    /\ UNCHANGED <<restoreVars, createVars, netVars, bridgeVars, listenVars, linkVars,
                   pauseVars, historyVars>>

SetPc(h, p) == handlers' = [handlers EXCEPT ![h].pc = p]

\* The comparison of line 42 for a counter value c.
BelowThreshold_Two(c) == c < ForceThreshold - 1

BelowThreshold(c) == c < ForceThreshold

\* switch sig: SIGINT/SIGTERM load the counter (line 42); SIGQUIT leaves the
\* switch and reaches os.Exit(128 + sig) of line 57.
HandlerSwitch(h) ==
    /\ ~exited
    /\ h \in DOMAIN handlers
    /\ handlers[h].pc = "start"
    /\ IF handlers[h].sig \in {SIGINT, SIGTERM}
       THEN IF BelowThreshold(interruptCount)
            THEN SetPc(h, "add")
            ELSE SetPc(h, "force")
       ELSE SetPc(h, "force")
    /\ UNCHANGED <<debugEnv, subscribed, chanC, sent, interruptCount,
                   cleanupCalls, cleanupState, exited, exitStatus>>
    /\ UNCHANGED daemonVars
    /\ UNCHANGED <<restoreVars, createVars, netVars, bridgeVars, listenVars, linkVars,
                   pauseVars, historyVars>>

\* atomic.AddUint32(&interruptCount, 1)   (line 43)
HandlerAdd(h) ==
    /\ ~exited
    /\ h \in DOMAIN handlers
    /\ handlers[h].pc = "add"
    \* a uint32: it is incremented at most once per handler, hence at most
    \* MaxSignals times, and never wraps
    /\ interruptCount' = interruptCount + 1
    /\ SetPc(h, "load2")
    /\ UNCHANGED <<debugEnv, subscribed, chanC, sent, cleanupCalls,
                   cleanupState, exited, exitStatus>>
    /\ UNCHANGED daemonVars
    /\ UNCHANGED <<restoreVars, createVars, netVars, bridgeVars, listenVars, linkVars,
                   pauseVars, historyVars>>

\* The comparison of line 45 for a counter value c.
IsFirst_AtLeastOne(c) == c >= 1

IsFirst(c) == c = 1

\* if atomic.LoadUint32(&interruptCount) == 1 {...} else { return }
HandlerLoad2(h) ==
    /\ ~exited
    /\ h \in DOMAIN handlers
    /\ handlers[h].pc = "load2"
    /\ IF IsFirst(interruptCount)
       THEN SetPc(h, "cleanup")
       ELSE SetPc(h, "returned")
    /\ UNCHANGED <<debugEnv, subscribed, chanC, sent, interruptCount,
                   cleanupCalls, cleanupState, exited, exitStatus>>
    /\ UNCHANGED daemonVars
    /\ UNCHANGED <<restoreVars, createVars, netVars, bridgeVars, listenVars, linkVars,
                   pauseVars, historyVars>>

\* cleanup() is called (line 47) ...
HandlerCallCleanup(h) ==
    /\ ~exited
    /\ h \in DOMAIN handlers
    /\ handlers[h].pc = "cleanup"
    /\ cleanupCalls' = cleanupCalls + 1
    /\ cleanupState' = "running"
    /\ SetPc(h, "incleanup")
    /\ UNCHANGED <<debugEnv, subscribed, chanC, sent, interruptCount,
                   exited, exitStatus>>
    /\ UNCHANGED daemonVars
    /\ UNCHANGED <<restoreVars, createVars, netVars, bridgeVars, listenVars, linkVars,
                   pauseVars, historyVars>>

\* ... and returns
CleanupReturns(h) ==
    /\ ~exited
    /\ h \in DOMAIN handlers
    /\ handlers[h].pc = "incleanup"
    /\ cleanupState' = "done"
    /\ SetPc(h, "exit0")
    /\ UNCHANGED <<debugEnv, subscribed, chanC, sent, interruptCount,
                   cleanupCalls, exited, exitStatus>>
    /\ UNCHANGED daemonVars
    /\ UNCHANGED <<restoreVars, createVars, netVars, bridgeVars, listenVars, linkVars,
                   pauseVars, historyVars>>

\* os.Exit(0)   (line 48)
HandlerExit0(h) ==
    /\ ~exited
    /\ h \in DOMAIN handlers
    /\ handlers[h].pc = "exit0"
    /\ exited' = TRUE
    /\ exitStatus' = 0
    /\ SetPc(h, "exited")
    /\ UNCHANGED <<debugEnv, subscribed, chanC, sent, interruptCount,
                   cleanupCalls, cleanupState>>
    /\ UNCHANGED daemonVars
    /\ UNCHANGED <<restoreVars, createVars, netVars, bridgeVars, listenVars, linkVars,
                   pauseVars, historyVars>>

\* os.Exit(128 + int(sig.(syscall.Signal)))   (line 57)
HandlerForceExit(h) ==
    /\ ~exited
    /\ h \in DOMAIN handlers
    /\ handlers[h].pc = "force"
    /\ exited' = TRUE
    /\ exitStatus' = 128 + handlers[h].sig
    /\ SetPc(h, "exited")
    /\ UNCHANGED <<debugEnv, subscribed, chanC, sent, interruptCount,
                   cleanupCalls, cleanupState>>
    /\ UNCHANGED daemonVars
    /\ UNCHANGED <<restoreVars, createVars, netVars, bridgeVars, listenVars, linkVars,
                   pauseVars, historyVars>>

TrapNext ==
    \/ \E s \in Signals : SignalArrives(s)
    \/ Dispatch
    \/ \E h \in 1..MaxSignals : HandlerSwitch(h)
    \/ \E h \in 1..MaxSignals : HandlerAdd(h)
    \/ \E h \in 1..MaxSignals : HandlerLoad2(h)
    \/ \E h \in 1..MaxSignals : HandlerCallCleanup(h)
    \/ \E h \in 1..MaxSignals : CleanupReturns(h)
    \/ \E h \in 1..MaxSignals : HandlerExit0(h)
    \/ \E h \in 1..MaxSignals : HandlerForceExit(h)


(***************************************************************************)
(* daemon/daemon.go: NewDaemonFromDirectory, the shutdown callbacks and     *)
(* Daemon.shutdown; the boot goroutine of mainDaemon.                       *)
(***************************************************************************)

\* The steps of NewDaemonFromDirectory in the order of its statements.
\* "pidfile" is lines 699-707, "network" the init_networkdriver job of
\* lines 815-829, "hook" the eng.OnShutdown of line 896.
NewDaemonSteps ==
    <<"config", "pidfile", "checks", "dirs", "graphdriver", "graphs",
      "network", "graphdb", "dockerinit", "execdriver", "dns", "restore",
      "hook">>

\* The boot goroutine of mainDaemon once NewDaemon has returned: d.Install
\* and then the acceptconnections job.
MainDaemonSteps_AcceptFirst == <<"accept", "install">>

MainDaemonSteps == <<"install", "accept">>

\* The steps of the boot goroutine in the order of the code: "install" and
\* "accept" follow in mainDaemon once NewDaemon has returned.
BootOrder_PidfileHookLast ==
    <<"config", "checks", "dirs", "graphdriver", "graphs", "network",
      "graphdb", "dockerinit", "execdriver", "dns", "restore", "hook",
      "pidfile", "install", "accept">>

BootOrder == NewDaemonSteps \o MainDaemonSteps

BootDone == bootPc = Len(BootOrder) + 1

\* Line 815: the init_networkdriver job is run unless config.DisableNetwork
\* (set at line 694 from the -b option); every other step always runs.
StepRuns(step, disableNetwork) == ~(step = "network" /\ disableNetwork)

\* The body of the callback registered at line 896, in program order.
DaemonHookSteps ==
    <<"stop_containers", "release_ports", "driver_cleanup", "close_db">>

\* Engine.OnShutdown(h): the callback is added to the engine's list.
OnShutdown(list, h) == Append(list, h)

\* Engine.Shutdown runs the registered callbacks last registered first.
ShutdownOrder(list) == Reverse(list)

\* The state of a freshly started docker -d process, before the boot
\* goroutine has taken a step. Whether a pidfile is configured and how the
\* containers' programs treat SIGTERM are inputs.
DaemonInit ==
    /\ pidfileCfg \in BOOLEAN
    /\ pidfileExists = FALSE
    /\ bootPc = 1
    /\ bootLog = <<>>
    /\ activated = FALSE
    /\ onShutdown = <<>>
    /\ shutPc = "idle"
    /\ bootAtShutdown = 0
    /\ pending = <<>>
    /\ hookPc = 1
    /\ shutdownLog = <<>>
    /\ hookErrors = {}
    /\ cstate = [c \in ContainerIds |-> "absent"]
    /\ ignoresTerm \in [ContainerIds -> BOOLEAN]
    /\ gotTerm = [c \in ContainerIds |-> FALSE]
    /\ workers = [c \in ContainerIds |-> "none"]

\* The daemon variables of a specification that does not use them.
DaemonIdle ==
    /\ pidfileCfg = FALSE
    /\ pidfileExists = FALSE
    /\ bootPc = 1
    /\ bootLog = <<>>
    /\ activated = FALSE
    /\ onShutdown = <<>>
    /\ shutPc = "idle"
    /\ bootAtShutdown = 0
    /\ pending = <<>>
    /\ hookPc = 1
    /\ shutdownLog = <<>>
    /\ hookErrors = {}
    /\ cstate = [c \in ContainerIds |-> "absent"]
    /\ ignoresTerm = [c \in ContainerIds |-> FALSE]
    /\ gotTerm = [c \in ContainerIds |-> FALSE]
    /\ workers = [c \in ContainerIds |-> "none"]

\* A boot step fails: an error returned by NewDaemonFromDirectory, Install
\* or the acceptconnections job reaches log.Fatal in mainDaemon, and the
\* checks of lines 712-720 call log.Fatalf themselves: the process exits
\* with status 1 and no shutdown callback runs.
BootStepFails ==
    /\ ~exited
    /\ ~BootDone
    /\ exited' = TRUE
    /\ exitStatus' = 1
    /\ UNCHANGED <<debugEnv, subscribed, chanC, sent, handlers, interruptCount,
                   cleanupCalls, cleanupState>>
    /\ UNCHANGED daemonVars
    /\ UNCHANGED <<restoreVars, createVars, netVars, bridgeVars, listenVars, linkVars,
                   pauseVars, historyVars>>

\* The acceptconnections job closes the activate channel that the
\* listeners of the serveapi job were given; no other step touches it.
ClosesActivate(step) == step = "accept"

\* A boot step succeeds. The pidfile step creates the file and registers
\* its removal; the restore step registers containers and starts those the
\* restart policy selects; the hook step registers the daemon's callback.
BootStep ==
    /\ ~exited
    /\ ~BootDone
    /\ bootPc' = bootPc + 1
    /\ \E disableNetwork \in BOOLEAN :
          bootLog' = IF StepRuns(BootOrder[bootPc], disableNetwork)
                     THEN Append(bootLog, BootOrder[bootPc])
                     ELSE bootLog
    /\ activated' = (activated \/ ClosesActivate(BootOrder[bootPc]))
    /\ CASE BootOrder[bootPc] = "pidfile" ->
              /\ IF pidfileCfg
                 THEN /\ pidfileExists' = TRUE
                      /\ onShutdown' = OnShutdown(onShutdown, "pidfile")
                 ELSE UNCHANGED <<pidfileExists, onShutdown>>
              /\ UNCHANGED cstate
         [] BootOrder[bootPc] = "restore" ->
              /\ \E registered \in SUBSET ContainerIds :
                 \E started \in SUBSET registered :
                    cstate' = [c \in ContainerIds |->
                                 IF c \in started THEN "running"
                                 ELSE IF c \in registered THEN "stopped"
                                 ELSE "absent"]
              /\ UNCHANGED <<pidfileExists, onShutdown>>
         [] BootOrder[bootPc] = "hook" ->
              /\ onShutdown' = OnShutdown(onShutdown, "daemon")
              /\ UNCHANGED <<pidfileExists, cstate>>
         [] OTHER -> UNCHANGED <<pidfileExists, onShutdown, cstate>>
    /\ UNCHANGED <<bootAtShutdown, pidfileCfg, shutPc, pending, hookPc, shutdownLog, hookErrors,
                   ignoresTerm, gotTerm, workers>>
    /\ UNCHANGED trapVars
    /\ UNCHANGED <<restoreVars, createVars, netVars, bridgeVars, listenVars, linkVars,
                   pauseVars, historyVars>>

\* A start job after boot: the container's process is spawned and the
\* state becomes running. The engine takes no job once it shuts down.
StartJob(c) ==
    /\ ~exited
    /\ BootDone
    /\ shutPc = "idle"
    /\ cstate[c] = "stopped"
    /\ cstate' = [cstate EXCEPT ![c] = "running"]
    /\ gotTerm' = [gotTerm EXCEPT ![c] = FALSE]
    /\ UNCHANGED <<bootAtShutdown, pidfileCfg, pidfileExists, bootPc, bootLog, activated, onShutdown, shutPc, pending,
                   hookPc, shutdownLog, hookErrors, ignoresTerm, workers>>
    /\ UNCHANGED trapVars
    /\ UNCHANGED <<restoreVars, createVars, netVars, bridgeVars, listenVars, linkVars,
                   pauseVars, historyVars>>

\* The container's process ends on the SIGTERM it was sent, unless it
\* ignores SIGTERM; its monitor marks the container stopped.
ContainerExits(c) ==
    /\ ~exited
    /\ cstate[c] = "running"
    /\ gotTerm[c]
    /\ ~ignoresTerm[c]
    /\ cstate' = [cstate EXCEPT ![c] = "stopped"]
    /\ UNCHANGED <<bootAtShutdown, pidfileCfg, pidfileExists, bootPc, bootLog, activated, onShutdown, shutPc, pending,
                   hookPc, shutdownLog, hookErrors, ignoresTerm, gotTerm, workers>>
    /\ UNCHANGED trapVars
    /\ UNCHANGED <<restoreVars, createVars, netVars, bridgeVars, listenVars, linkVars,
                   pauseVars, historyVars>>

\* The trap calls cleanup, which is eng.Shutdown (mainDaemon, line 42), on
\* the first SIGINT/SIGTERM.
EngineShutdown ==
    /\ ~exited
    /\ shutPc = "idle"
    /\ shutPc' = "hooks"
    /\ bootAtShutdown' = bootPc
    /\ pending' = ShutdownOrder(onShutdown)
    /\ cleanupCalls' = cleanupCalls + 1
    /\ cleanupState' = "running"
    /\ UNCHANGED <<debugEnv, subscribed, chanC, sent, handlers, interruptCount,
                   exited, exitStatus>>
    /\ UNCHANGED <<pidfileCfg, pidfileExists, bootPc, bootLog, activated, onShutdown, hookPc,
                   shutdownLog, hookErrors, cstate, ignoresTerm, gotTerm, workers>>
    /\ UNCHANGED <<restoreVars, createVars, netVars, bridgeVars, listenVars, linkVars,
                   pauseVars, historyVars>>

\* The callback of lines 703-706: utils.RemovePidFile.
RunPidfileHook ==
    /\ ~exited
    /\ shutPc = "hooks"
    /\ pending # <<>>
    /\ Head(pending) = "pidfile"
    /\ pending' = Tail(pending)
    /\ pidfileExists' = FALSE
    /\ shutdownLog' = Append(shutdownLog, "remove_pidfile")
    /\ UNCHANGED <<bootAtShutdown, pidfileCfg, bootPc, bootLog, activated, onShutdown, shutPc, hookPc, hookErrors,
                   cstate, ignoresTerm, gotTerm, workers>>
    /\ UNCHANGED trapVars
    /\ UNCHANGED <<restoreVars, createVars, netVars, bridgeVars, listenVars, linkVars,
                   pauseVars, historyVars>>

\* The callback of lines 896-912 is entered.
EnterDaemonHook ==
    /\ ~exited
    /\ shutPc = "hooks"
    /\ pending # <<>>
    /\ Head(pending) = "daemon"
    /\ pending' = Tail(pending)
    /\ shutPc' = "daemonhook"
    /\ hookPc' = 1
    /\ UNCHANGED <<bootAtShutdown, pidfileCfg, pidfileExists, bootPc, bootLog, activated, onShutdown, shutdownLog,
                   hookErrors, cstate, ignoresTerm, gotTerm, workers>>
    /\ UNCHANGED trapVars
    /\ UNCHANGED <<restoreVars, createVars, netVars, bridgeVars, listenVars, linkVars,
                   pauseVars, historyVars>>

InHookStep(name) ==
    /\ ~exited
    /\ shutPc = "daemonhook"
    /\ hookPc \in DOMAIN DaemonHookSteps
    /\ DaemonHookSteps[hookPc] = name

\* Daemon.shutdown, lines 920-935: one goroutine per container of
\* daemon.List() that is running.
ShutdownSpawn ==
    /\ InHookStep("stop_containers")
    /\ \A c \in ContainerIds : workers[c] = "none"
    /\ \E c \in ContainerIds : cstate[c] = "running"
    /\ workers' = [c \in ContainerIds |->
                     IF cstate[c] = "running" THEN "kill" ELSE "skipped"]
    /\ UNCHANGED <<bootAtShutdown, pidfileCfg, pidfileExists, bootPc, bootLog, activated, onShutdown, shutPc, pending,
                   hookPc, shutdownLog, hookErrors, cstate, ignoresTerm, gotTerm>>
    /\ UNCHANGED trapVars
    /\ UNCHANGED <<restoreVars, createVars, netVars, bridgeVars, listenVars, linkVars,
                   pauseVars, historyVars>>

\* c.KillSig(15), line 928: the signal reaches a process that still runs;
\* an error is only logged.
WorkerKillSig(c) ==
    /\ ~exited
    /\ workers[c] = "kill"
    /\ workers' = [workers EXCEPT ![c] = "wait"]
    /\ gotTerm' = [gotTerm EXCEPT ![c] = (cstate[c] = "running")]
    /\ UNCHANGED <<bootAtShutdown, pidfileCfg, pidfileExists, bootPc, bootLog, activated, onShutdown, shutPc, pending,
                   hookPc, shutdownLog, hookErrors, cstate, ignoresTerm>>
    /\ UNCHANGED trapVars
    /\ UNCHANGED <<restoreVars, createVars, netVars, bridgeVars, listenVars, linkVars,
                   pauseVars, historyVars>>

\* State.WaitStop(timeout) for the state st of the container: with the
\* negative timeout of line 931 it returns only once the container is no
\* longer running ("container stopped" is what line 932 then logs).
WaitStopReturns(st) == st # "running"

\* c.State.WaitStop(-1 * time.Second) returns; group.Done().
WorkerWaitStop(c) ==
    /\ ~exited
    /\ workers[c] = "wait"
    /\ WaitStopReturns(cstate[c])
    /\ workers' = [workers EXCEPT ![c] = "done"]
    /\ UNCHANGED <<bootAtShutdown, pidfileCfg, pidfileExists, bootPc, bootLog, activated, onShutdown, shutPc, pending,
                   hookPc, shutdownLog, hookErrors, cstate, ignoresTerm, gotTerm>>
    /\ UNCHANGED trapVars
    /\ UNCHANGED <<restoreVars, createVars, netVars, bridgeVars, listenVars, linkVars,
                   pauseVars, historyVars>>

\* group.Wait() is over and Daemon.shutdown returns nil (line 938). With no
\* running container no goroutine was spawned.
ShutdownReturns ==
    /\ InHookStep("stop_containers")
    /\ \/ \A c \in ContainerIds : workers[c] \in {"done", "skipped"}
       \/ /\ \A c \in ContainerIds : workers[c] = "none"
          /\ \A c \in ContainerIds : cstate[c] # "running"
    /\ hookPc' = hookPc + 1
    /\ shutdownLog' = Append(shutdownLog, "stop_containers")
    /\ UNCHANGED <<bootAtShutdown, pidfileCfg, pidfileExists, bootPc, bootLog, activated, onShutdown, shutPc, pending,
                   hookErrors, cstate, ignoresTerm, gotTerm, workers>>
    /\ UNCHANGED trapVars
    /\ UNCHANGED <<restoreVars, createVars, netVars, bridgeVars, listenVars, linkVars,
                   pauseVars, historyVars>>

\* Lines 903-911: `if err := ...; err != nil { log.Errorf(...) }`, and the
\* next statement follows whatever the call returned.
HookAfter_ReturnOnError(pc, ok) ==
    IF ok THEN pc + 1 ELSE Len(DaemonHookSteps) + 1

HookAfter(pc, ok) == pc + 1

\* portallocator.ReleaseAll(), daemon.driver.Cleanup() and
\* daemon.containerGraph.Close(): an error is logged and the callback goes
\* on (lines 903-911).
HookCall(name, ok) ==
    /\ InHookStep(name)
    /\ hookPc' = HookAfter(hookPc, ok)
    /\ shutdownLog' = Append(shutdownLog, name)
    /\ hookErrors' = IF ok THEN hookErrors ELSE hookErrors \cup {name}
    /\ UNCHANGED <<bootAtShutdown, pidfileCfg, pidfileExists, bootPc, bootLog, activated, onShutdown, shutPc, pending,
                   cstate, ignoresTerm, gotTerm, workers>>
    /\ UNCHANGED trapVars
    /\ UNCHANGED <<restoreVars, createVars, netVars, bridgeVars, listenVars, linkVars,
                   pauseVars, historyVars>>

ReleaseAllPorts == \E ok \in BOOLEAN : HookCall("release_ports", ok)

DriverCleanup == \E ok \in BOOLEAN : HookCall("driver_cleanup", ok)

ContainerGraphClose == \E ok \in BOOLEAN : HookCall("close_db", ok)

\* The callback of lines 896-912 returns.
LeaveDaemonHook ==
    /\ ~exited
    /\ shutPc = "daemonhook"
    /\ hookPc = Len(DaemonHookSteps) + 1
    /\ shutPc' = "hooks"
    /\ UNCHANGED <<bootAtShutdown, pidfileCfg, pidfileExists, bootPc, bootLog, activated, onShutdown, pending, hookPc,
                   shutdownLog, hookErrors, cstate, ignoresTerm, gotTerm, workers>>
    /\ UNCHANGED trapVars
    /\ UNCHANGED <<restoreVars, createVars, netVars, bridgeVars, listenVars, linkVars,
                   pauseVars, historyVars>>

\* Engine.Shutdown returns to the trap, which calls os.Exit(0).
ShutdownExit ==
    /\ ~exited
    /\ shutPc = "hooks"
    /\ pending = <<>>
    /\ shutPc' = "done"
    /\ cleanupState' = "done"
    /\ exited' = TRUE
    /\ exitStatus' = 0
    /\ UNCHANGED <<debugEnv, subscribed, chanC, sent, handlers, interruptCount,
                   cleanupCalls>>
    /\ UNCHANGED <<bootAtShutdown, pidfileCfg, pidfileExists, bootPc, bootLog, activated, onShutdown, pending, hookPc,
                   shutdownLog, hookErrors, cstate, ignoresTerm, gotTerm, workers>>
    /\ UNCHANGED <<restoreVars, createVars, netVars, bridgeVars, listenVars, linkVars,
                   pauseVars, historyVars>>

DaemonNext ==
    \/ BootStep
    \/ BootStepFails
    \/ \E c \in ContainerIds : StartJob(c)
    \/ \E c \in ContainerIds : ContainerExits(c)
    \/ EngineShutdown
    \/ RunPidfileHook
    \/ EnterDaemonHook
    \/ ShutdownSpawn
    \/ \E c \in ContainerIds : WorkerKillSig(c)
    \/ \E c \in ContainerIds : WorkerWaitStop(c)
    \/ ShutdownReturns
    \/ ReleaseAllPorts
    \/ DriverCleanup
    \/ ContainerGraphClose
    \/ LeaveDaemonHook
    \/ ShutdownExit

(***************************************************************************)
(* daemon/daemon.go: load, register, ensureName, generateNewName, restore  *)
(***************************************************************************)

\* The directories under daemon.repository; a directory is named after the
\* container it holds.
DirIds == {"c1", "c2"}

NoId == "-"

\* The names namesgenerator.GetRandomName draws from.
RandomNames == {"/r1", "/r2"}

\* "/" + utils.TruncateID(id)
TruncName(id) == "/" \o id

Paths == RandomNames \cup {TruncName(id) : id \in DirIds}

\* The order in which entities.Paths() lists the paths of the name graph.
PathOrder == <<"/r1", "/r2", "/c1", "/c2">>

\* The order in which ioutil.ReadDir lists the directories (by file name).
DirOrder == <<"c1", "c2">>

GraphDrivers == {"aufs", "vfs"}

\* The exit code register gives a container that should run but does not.
DeadExitCode == -127

\* The pid recorded for a container that was running.
SomePid == 7

\* What config.json of a directory can hold. load: "ok", "unreadable"
\* (FromDisk fails) or "idmismatch" (the stored ID is not the directory's
\* name).
DiskStates ==
    [running : {FALSE}, pid : {0}, exitCode : {0, 1}]
    \cup [running : {TRUE}, pid : {SomePid}, exitCode : {0}]

DiskOk ==
    {[load |-> "ok", driver |-> dr, name |-> n, running |-> st.running,
      pid |-> st.pid, exitCode |-> st.exitCode] :
        dr \in GraphDrivers \cup {""}, n \in RandomNames \cup {""},
        st \in DiskStates}

DiskBroken ==
    {[load |-> l, driver |-> "", name |-> "", running |-> FALSE, pid |-> 0,
      exitCode |-> 0] : l \in {"unreadable", "idmismatch"}}

NotLoaded ==
    [loaded |-> FALSE, name |-> "", running |-> FALSE, pid |-> 0, exitCode |-> 0,
     attached |-> FALSE, loadedRunning |-> FALSE, startInvoked |-> FALSE]

\* The state before restore is called: any content of the container
\* directories and of the name graph; the process of a container that was
\* running when the previous daemon ended is alive or dead.
RestoreInit ==
    /\ currentDriver \in GraphDrivers
    /\ disk \in [DirIds -> DiskOk \cup DiskBroken]
    /\ graph \in [Paths -> DirIds \cup {NoId}]
    /\ \A id \in DirIds : graph[TruncName(id)] = NoId
    /\ proc \in [DirIds -> {"none", "alive", "dead"}]
    /\ \A d \in DirIds : (proc[d] = "none") <=> ~disk[d].running
    /\ mem = [d \in DirIds |-> NotLoaded]
    /\ store = {}
    /\ idIndex = {}
    /\ restorePc = "readdir"
    /\ todo = <<>>
    /\ walk = <<>>
    /\ kept = {}
    /\ registeredContainers = <<>>
    /\ regResult = [d \in DirIds |-> "none"]
    /\ restoreResult = "none"
    /\ autoRestart = TRUE
    /\ policy = [d \in DirIds |-> "always"]

\* The restore variables of a specification that does not use them.
RestoreIdle ==
    /\ currentDriver = "aufs"
    /\ disk = [d \in DirIds |->
                 [load |-> "unreadable", driver |-> "", name |-> "",
                  running |-> FALSE, pid |-> 0, exitCode |-> 0]]
    /\ graph = [p \in Paths |-> NoId]
    /\ proc = [d \in DirIds |-> "none"]
    /\ mem = [d \in DirIds |-> NotLoaded]
    /\ store = {}
    /\ idIndex = {}
    /\ restorePc = "readdir"
    /\ todo = <<>>
    /\ walk = <<>>
    /\ kept = {}
    /\ registeredContainers = <<>>
    /\ regResult = [d \in DirIds |-> "none"]
    /\ restoreResult = "none"
    /\ autoRestart = TRUE
    /\ policy = [d \in DirIds |-> "no"]

\* load(id) succeeds: FromDisk read config.json and the ID stored in it is
\* the directory's name (lines 169-175).
LoadOk_NoIdCheck(d) == disk[d].load \in {"ok", "idmismatch"}

LoadOk(d) == disk[d].load = "ok"

\* The test of line 318.
DriverMatches_EmptyIsAnyDriver(d) ==
    disk[d].driver = "" \/ disk[d].driver = currentDriver

DriverMatches(d) ==
    \/ (disk[d].driver = "" /\ currentDriver = "aufs")
    \/ disk[d].driver = currentDriver

\* The Container object load returns.
Loaded(d) ==
    [loaded |-> TRUE, name |-> disk[d].name, running |-> disk[d].running,
     pid |-> disk[d].pid, exitCode |-> disk[d].exitCode, attached |-> FALSE,
     loadedRunning |-> disk[d].running, startInvoked |-> FALSE]

\* container.ToDisk(): config.json takes the name and the state of c.
ToDisk(dk, c) ==
    [dk EXCEPT !.name = c.name, !.running = c.running, !.pid = c.pid,
               !.exitCode = c.exitCode]

\* State.SetStopped(exitCode)
SetStopped(c, code) == [c EXCEPT !.running = FALSE, !.pid = 0, !.exitCode = code]

\* daemon.Exists(id): the ID index knows the full id and the store holds
\* the container (no path of the name graph is a full id).
Exists(id) == id \in idIndex /\ id \in store

\* The outcomes of generateNewName(id) on the name graph g: a random name
\* that is free is set; if an attempt can collide, all six can, and the
\* name falls back to "/" + TruncateID(id), which fails when taken; any
\* Set can fail with another database error.
GenerateNewName(g, id) ==
    LET free == {n \in RandomNames : g[n] = NoId}
    IN  {[ok |-> TRUE, name |-> n, graph |-> [g EXCEPT ![n] = id]] : n \in free}
        \cup (IF free # RandomNames
              THEN {IF g[TruncName(id)] = NoId
                    THEN [ok |-> TRUE, name |-> TruncName(id),
                          graph |-> [g EXCEPT ![TruncName(id)] = id]]
                    ELSE [ok |-> FALSE, name |-> "", graph |-> g]}
              ELSE {})
        \cup {[ok |-> FALSE, name |-> "", graph |-> g]}

\* What register returns when the ToDisk of line 258 returned ok or not.
FinalToDiskResult_Ignored(ok) == "ok"

FinalToDiskResult(ok) == IF ok THEN "ok" ELSE "error"

\* container.ExecDriver as config.json gives it.
ExecDrivers == {"", "lxc", "native"}

\* Lines 229-242: lxc.KillLxc(id, 9) for lxc, execDriver.Terminate for the
\* other drivers; neither result is looked at, and the old process is gone
\* afterwards if the kill worked.
KillOld(execDriver, pr, killWorks) ==
    IF execDriver = "" \/ execDriver = "lxc"
    THEN (IF pr = "alive" /\ killWorks THEN "killed" ELSE pr)
    ELSE (IF pr = "alive" /\ killWorks THEN "killed" ELSE pr)

\* The exit code of line 257.
MarkDead(c) == SetStopped(c, DeadExitCode)

\* The outcomes of daemon.register(container, false) for the container id
\* with Container object c, name graph g and directory content dk. Each
\* outcome gives the result, the object, the graph, the directory content,
\* the process and whether the container was added to store and index.
\* Inputs: the outcome gen of generateNewName, container.ExecDriver,
\* whether the kill of the old process works, and whether each of the
\* three ToDisk calls succeeds.
RegisterOutcomes(id, c, g, dk, pr) ==
    IF c.attached \/ Exists(id)
    THEN {[result |-> "error", c |-> c, graph |-> g, disk |-> dk, proc |-> pr,
           added |-> FALSE]}
    ELSE
    UNION {
      \* ensureName (lines 266-279)
      LET named == IF c.name = "" THEN gen.ok ELSE TRUE
          c1 == IF c.name = "" /\ gen.ok THEN [c EXCEPT !.name = gen.name] ELSE c
          g1 == IF c.name = "" THEN gen.graph ELSE g
      IN
      IF ~named
      THEN {[result |-> "error", c |-> c, graph |-> g1, disk |-> dk, proc |-> pr,
             added |-> FALSE]}
      ELSE
      UNION {
        LET dk1 == IF c.name = "" /\ wName THEN ToDisk(dk, c1) ELSE dk
            c2 == [c1 EXCEPT !.attached = TRUE]
        IN
        IF ~c2.running
        THEN {[result |-> "ok", c |-> c2, graph |-> g1, disk |-> dk1,
               proc |-> pr, added |-> TRUE]}
        ELSE
        \* lines 221-262
        UNION {
          LET c3 == SetStopped(c2, 0)
              pr1 == KillOld(execDriver, pr, killWorks)
              dk2 == IF wStop THEN ToDisk(dk1, c3) ELSE dk1
          IN
          IF pr1 = "alive"
          THEN {[result |-> "ok", c |-> c3, graph |-> g1, disk |-> dk2,
                 proc |-> pr1, added |-> TRUE]}
          ELSE {[result |-> FinalToDiskResult(wFinal), c |-> MarkDead(c3),
                 graph |-> g1,
                 disk |-> IF wFinal THEN ToDisk(dk2, MarkDead(c3)) ELSE dk2,
                 proc |-> pr1, added |-> TRUE] : wFinal \in BOOLEAN}
          : execDriver \in ExecDrivers, killWorks \in BOOLEAN,
            wStop \in BOOLEAN }
        : wName \in BOOLEAN }
      : gen \in GenerateNewName(g, id) }

\* The state after register(id) ended with outcome o.
ApplyRegister(id, o) ==
    /\ mem' = [mem EXCEPT ![id] = o.c]
    /\ graph' = o.graph
    /\ disk' = [disk EXCEPT ![id] = o.disk]
    /\ proc' = [proc EXCEPT ![id] = o.proc]
    /\ store' = IF o.added THEN store \cup {id} ELSE store
    /\ idIndex' = IF o.added THEN idIndex \cup {id} ELSE idIndex
    /\ regResult' = [regResult EXCEPT ![id] = o.result]
    /\ registeredContainers' = Append(registeredContainers, id)
    /\ kept' = kept \ {id}

\* ioutil.ReadDir(daemon.repository), lines 301-304.
RestoreReadDir ==
    /\ restorePc = "readdir"
    /\ \E ok \in BOOLEAN :
          IF ok
          THEN /\ todo' = DirOrder
               /\ restorePc' = "load"
               /\ UNCHANGED restoreResult
          ELSE /\ restoreResult' = "error"
               /\ restorePc' = "done"
               /\ UNCHANGED todo
    /\ UNCHANGED <<currentDriver, disk, graph, proc, mem, store, idIndex, walk,
                   kept, registeredContainers, regResult>>
    /\ UNCHANGED <<trapVars, daemonVars, createVars, configVars, netVars,
                   bridgeVars, listenVars, linkVars,
                   pauseVars, historyVars>>

\* One round of the loop of lines 306-325: a directory that does not load
\* is logged and skipped, a container of another graph driver is ignored.
RestoreLoad ==
    /\ restorePc = "load"
    /\ todo # <<>>
    /\ LET d == Head(todo) IN
       /\ todo' = Tail(todo)
       /\ IF LoadOk(d)
          THEN /\ mem' = [mem EXCEPT ![d] = Loaded(d)]
               /\ kept' = IF DriverMatches(d) THEN kept \cup {d} ELSE kept
          ELSE UNCHANGED <<mem, kept>>
    /\ UNCHANGED <<currentDriver, disk, graph, proc, store, idIndex, restorePc,
                   walk, registeredContainers, regResult, restoreResult>>
    /\ UNCHANGED <<trapVars, daemonVars, createVars, configVars, netVars,
                   bridgeVars, listenVars, linkVars,
                   pauseVars, historyVars>>

\* daemon.containerGraph.List("/", -1), line 329: the entities of the graph.
RestoreListGraph ==
    /\ restorePc = "load"
    /\ todo = <<>>
    /\ walk' = SelectSeq(PathOrder, LAMBDA p : graph[p] # NoId)
    /\ restorePc' = "graph"
    /\ UNCHANGED <<currentDriver, disk, graph, proc, mem, store, idIndex, todo,
                   kept, registeredContainers, regResult, restoreResult>>
    /\ UNCHANGED <<trapVars, daemonVars, createVars, configVars, netVars,
                   bridgeVars, listenVars, linkVars,
                   pauseVars, historyVars>>

\* One round of the loop of lines 330-347, for an entity whose container
\* was loaded: it is registered (an error is logged) and taken off the map.
RestoreRegisterNamed ==
    /\ restorePc = "graph"
    /\ walk # <<>>
    /\ graph[Head(walk)] \in kept
    /\ LET id == graph[Head(walk)] IN
       \E o \in RegisterOutcomes(id, mem[id], graph, disk[id], proc[id]) :
           ApplyRegister(id, o)
    /\ walk' = Tail(walk)
    /\ UNCHANGED <<currentDriver, restorePc, todo, restoreResult>>
    /\ UNCHANGED <<trapVars, daemonVars, createVars, configVars, netVars,
                   bridgeVars, listenVars, linkVars,
                   pauseVars, historyVars>>

\* The same round for an entity with no loaded container left.
RestoreSkipEntity ==
    /\ restorePc = "graph"
    /\ walk # <<>>
    /\ graph[Head(walk)] \notin kept
    /\ walk' = Tail(walk)
    /\ UNCHANGED <<currentDriver, disk, graph, proc, mem, store, idIndex,
                   restorePc, todo, kept, registeredContainers, regResult,
                   restoreResult>>
    /\ UNCHANGED <<trapVars, daemonVars, createVars, configVars, netVars,
                   bridgeVars, listenVars, linkVars,
                   pauseVars, historyVars>>

\* One round of the loop of lines 351-363 (a Go map is ranged over in any
\* order): the container gets a generated name, or keeps no name when that
\* fails, and is registered.
RestoreRegisterLeftover ==
    /\ restorePc = "graph"
    /\ walk = <<>>
    /\ \E id \in kept :
       \E gen \in GenerateNewName(graph, id) :
       \E o \in RegisterOutcomes(id, [mem[id] EXCEPT !.name = gen.name],
                                 gen.graph, disk[id], proc[id]) :
           ApplyRegister(id, o)
    /\ UNCHANGED <<currentDriver, restorePc, todo, walk, restoreResult>>
    /\ UNCHANGED <<trapVars, daemonVars, createVars, configVars, netVars,
                   bridgeVars, listenVars, linkVars,
                   pauseVars, historyVars>>

RestartPolicies == {"no", "always", "on-failure"}

\* The test of lines 371-372.
ShouldRestart_IgnoresExitCode(name, exitCode) == name # "no"

ShouldRestart(name, exitCode) ==
    \/ name = "always"
    \/ (name = "on-failure" /\ exitCode # 0)

\* container.Start() when it succeeds: the container runs under a new
\* process; when it fails the state is rolled back.
ContainerStart(c, ok) ==
    IF ok /\ ~c.running
    THEN [c EXCEPT !.running = TRUE, !.pid = SomePid, !.startInvoked = TRUE]
    ELSE [c EXCEPT !.startInvoked = TRUE]

\* Lines 367-386: with config.AutoRestart, Start is called on each member
\* of registeredContainers whose restart policy asks for it; an error of
\* Start is logged; restore returns nil. The restart policy of a container
\* is in hostconfig.json, read by load (line 177) and first used here.
RestoreRestartPolicy ==
    /\ restorePc = "graph"
    /\ walk = <<>>
    /\ kept = {}
    /\ LET toStart == IF autoRestart
                      THEN {d \in {registeredContainers[i] :
                                      i \in 1..Len(registeredContainers)} :
                               ShouldRestart(policy[d], mem[d].exitCode)}
                      ELSE {}
       IN
       \E startOk \in [toStart -> BOOLEAN] :
         LET starts(d) == d \in toStart
         IN  /\ mem' = [d \in DirIds |->
                          IF starts(d) THEN ContainerStart(mem[d], startOk[d])
                          ELSE mem[d]]
             /\ disk' = [d \in DirIds |->
                           IF starts(d) /\ startOk[d] THEN ToDisk(disk[d], mem'[d])
                           ELSE disk[d]]
             /\ proc' = [d \in DirIds |->
                           IF starts(d) /\ startOk[d] /\ ~mem[d].running
                           THEN "alive" ELSE proc[d]]
    /\ restorePc' = "done"
    /\ restoreResult' = "ok"
    /\ UNCHANGED <<currentDriver, graph, store, idIndex, todo, walk, kept,
                   registeredContainers, regResult>>
    /\ UNCHANGED <<trapVars, daemonVars, createVars, configVars, netVars,
                   bridgeVars, listenVars, linkVars,
                   pauseVars, historyVars>>

\* The state before restore is called, for the restart policies: any
\* setting of config.AutoRestart and any restart policy of each container;
\* the containers are of the current graph driver and have no name yet, and
\* the name graph has at most one entry.
RestartInit ==
    /\ currentDriver = "aufs"
    /\ disk \in [DirIds -> {x \in DiskOk : x.driver = "aufs" /\ x.name = ""}
                            \cup DiskBroken]
    /\ graph \in [Paths -> DirIds \cup {NoId}]
    /\ \A p \in Paths \ {"/r1"} : graph[p] = NoId
    /\ proc \in [DirIds -> {"none", "alive", "dead"}]
    /\ \A d \in DirIds : (proc[d] = "none") <=> ~disk[d].running
    /\ mem = [d \in DirIds |-> NotLoaded]
    /\ store = {}
    /\ idIndex = {}
    /\ restorePc = "readdir"
    /\ todo = <<>>
    /\ walk = <<>>
    /\ kept = {}
    /\ registeredContainers = <<>>
    /\ regResult = [d \in DirIds |-> "none"]
    /\ restoreResult = "none"
    /\ autoRestart \in BOOLEAN
    /\ policy \in [DirIds -> RestartPolicies]

\* What a restore registered: the store and, of each container, the name,
\* the state and the exit code.
RestoreView ==
    [store |-> store,
     containers |-> [d \in DirIds |->
                       [name |-> mem[d].name, running |-> mem[d].running,
                        exitCode |-> mem[d].exitCode]]]

NoRestore ==
    [done |-> FALSE,
     view |-> [store |-> {},
               containers |-> [d \in DirIds |->
                                 [name |-> "", running |-> FALSE,
                                  exitCode |-> 0]]]]

HistoryIdle == firstRestore = NoRestore

\* The daemon is started anew on the directories and the name graph the
\* restore of the previous daemon left: NewDaemonFromDirectory makes an
\* empty store and index (lines 873-876) and calls restore (line 891).
\* The processes of the containers are as the previous daemon left them.
RestoreAgain ==
    /\ restorePc = "done"
    /\ restoreResult = "ok"
    /\ ~firstRestore.done
    /\ firstRestore' = [done |-> TRUE, view |-> RestoreView]
    /\ mem' = [d \in DirIds |-> NotLoaded]
    /\ store' = {}
    /\ idIndex' = {}
    /\ restorePc' = "readdir"
    /\ todo' = <<>>
    /\ walk' = <<>>
    /\ kept' = {}
    /\ registeredContainers' = <<>>
    /\ regResult' = [d \in DirIds |-> "none"]
    /\ restoreResult' = "none"
    /\ UNCHANGED <<currentDriver, disk, graph, proc, configVars>>
    /\ UNCHANGED <<trapVars, daemonVars, createVars, netVars, bridgeVars,
                   listenVars, linkVars, pauseVars>>

\* The state before the first of two restores: containers of the current
\* graph driver that were made before names existed, stopped or running,
\* or a directory that cannot be read; the name graph is empty or has one
\* name.
RestoreTwiceInit ==
    /\ currentDriver = "aufs"
    /\ disk \in [DirIds -> {x \in DiskOk : x.driver = "aufs" /\ x.name = ""}
                            \cup {x \in DiskBroken : x.load = "unreadable"}]
    /\ LoadOk("c1")
    /\ graph \in [Paths -> {NoId, "c2"}]
    /\ \A p \in Paths \ {"/r2"} : graph[p] = NoId
    /\ proc \in [DirIds -> {"none", "alive", "dead"}]
    /\ \A d \in DirIds : (proc[d] = "none") <=> ~disk[d].running
    /\ mem = [d \in DirIds |-> NotLoaded]
    /\ store = {}
    /\ idIndex = {}
    /\ restorePc = "readdir"
    /\ todo = <<>>
    /\ walk = <<>>
    /\ kept = {}
    /\ registeredContainers = <<>>
    /\ regResult = [d \in DirIds |-> "none"]
    /\ restoreResult = "none"
    /\ autoRestart \in BOOLEAN
    /\ policy = [d \in DirIds |-> "always"]

RestoreTwiceNext ==
    \/ RestoreReadDir
    \/ RestoreLoad
    \/ RestoreListGraph
    \/ RestoreRegisterNamed
    \/ RestoreSkipEntity
    \/ RestoreRegisterLeftover
    \/ RestoreRestartPolicy
    \/ RestoreAgain

RestoreNext ==
    \/ RestoreReadDir
    \/ RestoreLoad
    \/ RestoreListGraph
    \/ RestoreRegisterNamed
    \/ RestoreSkipEntity
    \/ RestoreRegisterLeftover
    \/ RestoreRestartPolicy


(***************************************************************************)
(* daemon/daemon.go: newContainer, generateIdAndName, reserveName,         *)
(* generateNewName, GetByName, Register                                    *)
(* Names and IDs are sequences of characters here.                         *)
(***************************************************************************)

\* The Create requests the daemon serves at the same time.
Requests == {"q1", "q2"}

Rep(c, n) == [i \in 1..n |-> c]

\* The length of the IDs of the model (utils.GenerateRandomID gives 64
\* characters).
IdLen == 13

\* utils.TruncateID keeps the first 12 characters.
TruncLen == 12

\* The ID utils.GenerateRandomID gives the request q; the two differ in
\* their twelfth character only.
NewId(q) ==
    Rep("a", TruncLen - 1) \o <<(IF q = "q1" THEN "1" ELSE "2")>>
        \o Rep("f", IdLen - TruncLen)

\* containerGraph.Get finds no entity at a path.
NoEntity == <<>>

\* The ID of the container that was made before.
OldId == Rep("b", IdLen)

CreateIds == {OldId} \cup {NewId(q) : q \in Requests}

TruncateID(id) == SubSeq(id, 1, TruncLen)

\* validContainerNameChars, as far as the model's names use them.
ValidNameChars == {"w", "e", "b", "r", "1", "2", "_", ".", "-"}

\* validContainerNamePattern: ^/?[a-zA-Z0-9_.-]+$
ValidContainerName(name) ==
    LET body == IF name # <<>> /\ name[1] = "/" THEN Tail(name) ELSE name
    IN  /\ body # <<>>
        /\ \A i \in 1..Len(body) : body[i] \in ValidNameChars

\* if name[0] != '/' { name = "/" + name }
WithSlash(name) == IF name[1] # "/" THEN <<"/">> \o name ELSE name

\* The names a client asks for: none, web, /web, and one the pattern rejects.
AskedNames == {<<>>, <<"w", "e", "b">>, <<"/", "w", "e", "b">>, <<"w", " ", "b">>}

\* What namesgenerator.GetRandomName returns.
GetRandomName == {<<"r", "1">>, <<"r", "2">>}

\* The paths of the name graph the requests can touch.
CreatePaths ==
    {WithSlash(n) : n \in {a \in AskedNames : ValidContainerName(a)}
                           \cup GetRandomName}
    \cup {<<"/">> \o TruncateID(id) : id \in CreateIds}

\* The number of random names generateNewName tries (line 474).
NameAttempts_Seven == 6 + 1

NameAttempts == 6

NewRequest(q, asked) ==
    [asked |-> asked, id |-> NewId(q), pc |-> "start", name |-> <<>>,
     attempts |-> 0, entity |-> NoEntity, got |-> <<>>, err |-> "none"]

\* A container of the store.
Stored(name) ==
    [loaded |-> TRUE, name |-> name, running |-> FALSE, pid |-> 0,
     exitCode |-> 0, attached |-> TRUE, loadedRunning |-> FALSE,
     startInvoked |-> FALSE]

\* The restore variables the Create requests do not use.
restoreOnlyVars == <<currentDriver, disk, proc, restorePc, todo, walk, kept,
                     registeredContainers, regResult, restoreResult,
                     autoRestart, policy>>

\* The daemon serves requests: the name graph has entries for the container
\* made before, which is in the store with its name or is gone from the
\* store (a stale entry), and each request asks for a name or for none.
CreateInit ==
    /\ currentDriver = "aufs"
    /\ disk = [d \in DirIds |->
                 [load |-> "unreadable", driver |-> "", name |-> "",
                  running |-> FALSE, pid |-> 0, exitCode |-> 0]]
    /\ proc = [d \in DirIds |-> "none"]
    /\ restorePc = "done"
    /\ todo = <<>>
    /\ walk = <<>>
    /\ kept = {}
    /\ registeredContainers = <<>>
    /\ regResult = [d \in DirIds |-> "none"]
    /\ restoreResult = "ok"
    /\ autoRestart = TRUE
    /\ policy = [d \in DirIds |-> "no"]
    /\ graph \in [CreatePaths -> {NoEntity, OldId}]
    /\ \A id \in CreateIds : graph[<<"/">> \o TruncateID(id)] = NoEntity
    /\ \/ /\ store = {}
          /\ mem = [id \in CreateIds |-> NotLoaded]
       \/ /\ store = {OldId}
          /\ \E n \in CreatePaths :
                /\ graph[n] = OldId
                /\ mem = [id \in CreateIds |->
                            IF id = OldId THEN Stored(n) ELSE NotLoaded]
    /\ idIndex = store
    /\ req \in {[q \in Requests |-> NewRequest(q, f[q])] :
                   f \in [Requests -> AskedNames]}

\* The variables of the Create requests in a specification without them.
CreateIdle == req = [q \in Requests |-> NewRequest(q, <<>>)]

SetReq(q, r) == req' = [req EXCEPT ![q] = r]

Fail(q, e) == SetReq(q, [req[q] EXCEPT !.pc = "failed", !.err = e])

\* generateIdAndName, lines 418-436, and the head of reserveName, lines
\* 439-445.
GenerateIdAndName(q) ==
    /\ req[q].pc = "start"
    /\ IF req[q].asked = <<>>
       THEN SetReq(q, [req[q] EXCEPT !.pc = "gen"])
       ELSE IF ~ValidContainerName(req[q].asked)
            THEN Fail(q, "invalid")
            ELSE SetReq(q, [req[q] EXCEPT !.pc = "set",
                                         !.name = WithSlash(req[q].asked)])
    /\ UNCHANGED <<graph, store, idIndex, mem, restoreOnlyVars>>
    /\ UNCHANGED <<trapVars, daemonVars, netVars, bridgeVars, listenVars, linkVars,
                   pauseVars, historyVars>>

\* containerGraph.Set(name, id): "ok" adds the entry; "nonunique" when the
\* path has an entry; "dberror" for any other error of the database.
SetOutcomes(g, name) ==
    (IF g[name] = NoEntity THEN {"ok"} ELSE {"nonunique"}) \cup {"dberror"}

\* reserveName, line 447.
ReserveSet(q) ==
    /\ req[q].pc = "set"
    /\ \E o \in SetOutcomes(graph, req[q].name) :
          CASE o = "ok" ->
                  /\ graph' = [graph EXCEPT ![req[q].name] = req[q].id]
                  /\ SetReq(q, [req[q] EXCEPT !.pc = "named",
                                               !.got = req[q].name])
            [] o = "nonunique" ->
                  /\ SetReq(q, [req[q] EXCEPT !.pc = "getentity"])
                  /\ UNCHANGED graph
            [] o = "dberror" ->
                  /\ Fail(q, "dberror")
                  /\ UNCHANGED graph
    /\ UNCHANGED <<store, idIndex, mem, restoreOnlyVars>>
    /\ UNCHANGED <<trapVars, daemonVars, netVars, bridgeVars, listenVars, linkVars,
                   pauseVars, historyVars>>

\* GetByName, lines 596-599: containerGraph.Get(fullName); reserveName
\* returns the error "Could not find entity" (lines 454-456).
GetByNameEntity(q) ==
    /\ req[q].pc = "getentity"
    /\ IF graph[req[q].name] = NoEntity
       THEN Fail(q, "noentity")
       ELSE SetReq(q, [req[q] EXCEPT !.pc = "getcontainer",
                                    !.entity = graph[req[q].name]])
    /\ UNCHANGED <<graph, store, idIndex, mem, restoreOnlyVars>>
    /\ UNCHANGED <<trapVars, daemonVars, netVars, bridgeVars, listenVars, linkVars,
                   pauseVars, historyVars>>

\* daemon.containers.Get(entity.ID()) finds a container.
ContainerFound_Never(id) == FALSE

ContainerFound(id) == id \in store

\* GetByName, lines 600-604, and what reserveName does with the result:
\* the Conflict error of lines 462-467, or on to the Delete of line 459.
GetByNameContainer(q) ==
    /\ req[q].pc = "getcontainer"
    /\ IF ContainerFound(req[q].entity)
       THEN Fail(q, "conflict")
       ELSE SetReq(q, [req[q] EXCEPT !.pc = "delete"])
    /\ UNCHANGED <<graph, store, idIndex, mem, restoreOnlyVars>>
    /\ UNCHANGED <<trapVars, daemonVars, netVars, bridgeVars, listenVars, linkVars,
                   pauseVars, historyVars>>

\* reserveName, lines 458-461 and 469: containerGraph.Delete(name), then
\* return name, nil.
ReserveDeleteStale(q) ==
    /\ req[q].pc = "delete"
    /\ \E ok \in BOOLEAN :
          IF ok
          THEN /\ graph' = [graph EXCEPT ![req[q].name] = NoEntity]
               /\ SetReq(q, [req[q] EXCEPT !.pc = "named", !.got = req[q].name])
          ELSE /\ Fail(q, "dberror")
               /\ UNCHANGED graph
    /\ UNCHANGED <<store, idIndex, mem, restoreOnlyVars>>
    /\ UNCHANGED <<trapVars, daemonVars, netVars, bridgeVars, listenVars, linkVars,
                   pauseVars, historyVars>>

\* One round of the loop of generateNewName, lines 474-486.
GenerateTry(q) ==
    /\ req[q].pc = "gen"
    /\ \E random \in GetRandomName :
       LET name == WithSlash(random) IN
       \E o \in SetOutcomes(graph, name) :
          CASE o = "ok" ->
                  /\ graph' = [graph EXCEPT ![name] = req[q].id]
                  /\ SetReq(q, [req[q] EXCEPT !.pc = "named", !.name = name,
                                               !.got = name,
                                               !.attempts = @ + 1])
            [] o = "nonunique" ->
                  /\ SetReq(q, [req[q] EXCEPT
                                  !.pc = IF req[q].attempts + 1 < NameAttempts
                                         THEN "gen" ELSE "fallback",
                                  !.name = name,
                                  !.attempts = @ + 1])
                  /\ UNCHANGED graph
            [] o = "dberror" ->
                  /\ SetReq(q, [req[q] EXCEPT !.pc = "failed", !.name = name,
                                               !.err = "dberror",
                                               !.attempts = @ + 1])
                  /\ UNCHANGED graph
    /\ UNCHANGED <<store, idIndex, mem, restoreOnlyVars>>
    /\ UNCHANGED <<trapVars, daemonVars, netVars, bridgeVars, listenVars, linkVars,
                   pauseVars, historyVars>>

\* generateNewName, lines 489-493: the name "/" + utils.TruncateID(id).
GenerateFallback(q) ==
    /\ req[q].pc = "fallback"
    /\ LET name == <<"/">> \o TruncateID(req[q].id) IN
       \E o \in SetOutcomes(graph, name) :
          IF o = "ok"
          THEN /\ graph' = [graph EXCEPT ![name] = req[q].id]
               /\ SetReq(q, [req[q] EXCEPT !.pc = "named", !.name = name,
                                            !.got = name])
          ELSE /\ SetReq(q, [req[q] EXCEPT !.pc = "failed", !.name = name,
                                            !.err = o])
               /\ UNCHANGED graph
    /\ UNCHANGED <<store, idIndex, mem, restoreOnlyVars>>
    /\ UNCHANGED <<trapVars, daemonVars, netVars, bridgeVars, listenVars, linkVars,
                   pauseVars, historyVars>>

\* newContainer returns the container with the name it got (lines 530-552)
\* and Create hands it to daemon.Register: register, lines 189-216, for a
\* container that has a name and does not run.
RegisterNew(q) ==
    /\ req[q].pc = "named"
    /\ IF Exists(req[q].id)
       THEN /\ Fail(q, "loaded")
            /\ UNCHANGED <<store, idIndex, mem>>
       ELSE /\ store' = store \cup {req[q].id}
            /\ idIndex' = idIndex \cup {req[q].id}
            /\ mem' = [mem EXCEPT ![req[q].id] = Stored(req[q].got)]
            /\ SetReq(q, [req[q] EXCEPT !.pc = "registered"])
    /\ UNCHANGED <<graph, restoreOnlyVars>>
    /\ UNCHANGED <<trapVars, daemonVars, netVars, bridgeVars, listenVars, linkVars,
                   pauseVars, historyVars>>

CreateNext ==
    \/ \E q \in Requests : GenerateIdAndName(q)
    \/ \E q \in Requests : ReserveSet(q)
    \/ \E q \in Requests : GetByNameEntity(q)
    \/ \E q \in Requests : GetByNameContainer(q)
    \/ \E q \in Requests : ReserveDeleteStale(q)
    \/ \E q \in Requests : GenerateTry(q)
    \/ \E q \in Requests : GenerateFallback(q)
    \/ \E q \in Requests : RegisterNew(q)

(***************************************************************************)
(* daemon/networkdriver/bridge/driver.go: Allocate, Release, AllocatePort  *)
(* The jobs run one after the other.                                       *)
(***************************************************************************)

\* The container ids of the network jobs.
NetIds == {"A", "B"}

\* How many port mappings a record can list before the model stops
\* sending allocate_port jobs for it.
MaxPortMappings == 1

MaxAllocatedPortAttempts_Eleven == 10 + 1

MaxAllocatedPortAttempts == 10

\* The addresses of bridgeNetwork a container can get.
BridgeIPs == {2, 3}

\* RequestedIP of an allocate_interface job: none, or one of the addresses.
NoIP == 0

defaultBindingIP == "0.0.0.0"

\* The environment of an allocate_port job: HostIP (none: the default
\* binding address), HostPort (0: the port allocator chooses),
\* ContainerPort and Proto (sctp is not supported).
PortRequests ==
    {[HostIP |-> "", HostPort |-> 0, ContainerPort |-> 80, Proto |-> "tcp"],
     [HostIP |-> "", HostPort |-> 8080, ContainerPort |-> 80, Proto |-> "tcp"],
     [HostIP |-> "127.0.0.1", HostPort |-> 8080, ContainerPort |-> 80,
      Proto |-> "udp"],
     [HostIP |-> "", HostPort |-> 0, ContainerPort |-> 80, Proto |-> "sctp"]}

\* The ports the port allocator chooses from.
AutoPorts == {49153}

\* ip of AllocatePort, lines 411 and 420-422.
BindingIP(hostIP) == IF hostIP # "" THEN hostIP ELSE defaultBindingIP

\* The host addresses the jobs can have mapped.
HostAddrs ==
    UNION {{[ip |-> BindingIP(r.HostIP), proto |-> r.Proto, port |-> p] :
              p \in (IF r.HostPort = 0 THEN AutoPorts ELSE {r.HostPort})} :
           r \in {q \in PortRequests : q.Proto \in {"tcp", "udp"}}}

\* currentInterfaces.Get(id) == nil
NoIface == [present |-> FALSE, IP |-> NoIP, PortMappings |-> <<>>]

\* &networkInterface{IP: ip}
NewIface(ip) == [present |-> TRUE, IP |-> ip, PortMappings |-> <<>>]

NotMapped == [proto |-> "", ip |-> NoIP, port |-> 0]

NoHost == [ip |-> "", proto |-> "", port |-> 0]

\* No job has run yet.
NoJob ==
    [kind |-> "none", id |-> "", hostIP |-> "", hostPort |-> 0,
     containerPort |-> 0, proto |-> "", pc |-> "done", i |-> 0, err |-> "none", host |-> NoHost,
     status |-> "none"]

NetInit ==
    /\ currentInterfaces = [id \in NetIds |-> NoIface]
    /\ ipAllocated = {}
    /\ mapped = [h \in HostAddrs |-> NotMapped]
    /\ netJob = NoJob

\* ipallocator.RequestIP(bridgeNetwork, ip): with no address asked for, the
\* lowest free one; with an address, that one if it is free.
RequestIP(allocated, requested) ==
    LET free == BridgeIPs \ allocated IN
    IF requested = NoIP
    THEN IF free = {} THEN [err |-> "noip", ip |-> NoIP]
         ELSE [err |-> "none",
               ip |-> CHOOSE a \in free : \A b \in free : a <= b]
    ELSE IF requested \in free THEN [err |-> "none", ip |-> requested]
         ELSE [err |-> "inuse", ip |-> NoIP]

\* ipallocator.ReleaseIP(bridgeNetwork, ip)
ReleaseIP(allocated, ip) == allocated \ {ip}

\* portmapper.Map(container, ip, hostPort): the results it can give. With
\* a port it maps that port unless it is allocated; with port 0 it maps a
\* free port the allocator chose, or the port chosen does not bind; any
\* call can fail with another error.
MapOutcomes(m, container, ip, hostPort) ==
    LET key(p) == [ip |-> ip, proto |-> container.proto, port |-> p]
        ok(p) == [err |-> "none", host |-> key(p)]
    IN  (IF hostPort # 0
         THEN IF m[key(hostPort)] = NotMapped
              THEN {ok(hostPort)}
              ELSE {[err |-> "allocated", host |-> NoHost]}
         ELSE {ok(p) : p \in {a \in AutoPorts : m[key(a)] = NotMapped}}
              \cup {[err |-> "allocated", host |-> NoHost]})
        \cup {[err |-> "other", host |-> NoHost]}

\* portmapper.Unmap(host): the mapping goes; an error if there is none.
Unmap(m, host) == [m EXCEPT ![host] = NotMapped]

UnmapFails(m, host) == m[host] = NotMapped

Range(seq) == {seq[i] : i \in 1..Len(seq)}

\* Allocate, lines 348-381.
Allocate(id, requestedIP) ==
    /\ netJob.pc = "done"
    /\ LET r == RequestIP(ipAllocated, requestedIP) IN
       IF r.err # "none"
       THEN /\ netJob' = [NoJob EXCEPT !.kind = "allocate_interface", !.id = id,
                                       !.err = r.err, !.status = "error"]
            /\ UNCHANGED <<currentInterfaces, ipAllocated>>
       ELSE /\ ipAllocated' = ipAllocated \cup {r.ip}
            /\ currentInterfaces' = [currentInterfaces EXCEPT ![id] = NewIface(r.ip)]
            /\ netJob' = [NoJob EXCEPT !.kind = "allocate_interface", !.id = id,
                                       !.status = "ok"]
    /\ UNCHANGED mapped
    /\ UNCHANGED <<trapVars, daemonVars, restoreVars, createVars, bridgeVars,
                   listenVars, linkVars,
                   pauseVars, historyVars>>

\* What Release returns: an error only when there is no record; the errors
\* of Unmap and ReleaseIP are logged (lines 390-403).
ReleaseStatus_ErrorsReturned(present, unmapFailed) ==
    IF present /\ ~unmapFailed THEN "ok" ELSE "error"

ReleaseStatus(present, unmapFailed) == IF present THEN "ok" ELSE "error"

\* The record of id after Release: the code leaves it in the table.
ReleasedRecord(record) == record

\* Release, lines 384-404.
Release(id) ==
    /\ netJob.pc = "done"
    /\ LET containerInterface == currentInterfaces[id]
           nats == Range(containerInterface.PortMappings)
           unmapFailed == \E nat \in nats : UnmapFails(mapped, nat)
       IN
       /\ netJob' = [NoJob EXCEPT
                        !.kind = "release_interface", !.id = id,
                        !.err = IF ~containerInterface.present THEN "norecord"
                                ELSE "none",
                        !.status = ReleaseStatus(containerInterface.present,
                                                 unmapFailed)]
       /\ IF ~containerInterface.present
          THEN UNCHANGED <<currentInterfaces, ipAllocated, mapped>>
          ELSE /\ mapped' = [h \in HostAddrs |->
                               IF h \in nats THEN NotMapped ELSE mapped[h]]
               /\ ipAllocated' = ReleaseIP(ipAllocated, containerInterface.IP)
               /\ currentInterfaces' =
                     [currentInterfaces EXCEPT ![id] = ReleasedRecord(containerInterface)]
    /\ UNCHANGED <<trapVars, daemonVars, restoreVars, createVars, bridgeVars,
                   listenVars, linkVars,
                   pauseVars, historyVars>>

\* The address the port is mapped to, lines 425-430.
ContainerAddr(job) ==
    [proto |-> job.proto, ip |-> currentInterfaces[job.id].IP,
     port |-> job.containerPort]

\* AllocatePort up to the loop, lines 407-433: a protocol other than tcp
\* and udp is an error; with no record of id, network.IP dereferences nil.
AllocatePortBegin(id, hostIP, hostPort, containerPort, proto) ==
    /\ netJob.pc = "done"
    /\ Len(currentInterfaces[id].PortMappings) < MaxPortMappings
    /\ LET network == currentInterfaces[id]
           job == [NoJob EXCEPT !.kind = "allocate_port", !.id = id,
                                !.hostIP = hostIP, !.hostPort = hostPort,
                                !.containerPort = containerPort,
                                !.proto = proto]
       IN  netJob' =
             IF proto \notin {"tcp", "udp"}
             THEN [job EXCEPT !.err = "unsupported", !.status = "error"]
             ELSE IF ~network.present
             THEN [job EXCEPT !.err = "nil", !.status = "panic"]
             ELSE [job EXCEPT !.pc = "loop", !.status = "running"]
    /\ UNCHANGED <<currentInterfaces, ipAllocated, mapped>>
    /\ UNCHANGED <<trapVars, daemonVars, restoreVars, createVars, bridgeVars,
                   listenVars, linkVars,
                   pauseVars, historyVars>>

\* The loop goes to its next turn, lines 443 and 448-457: the error is
\* ErrPortAlreadyAllocated, the port was not chosen by the caller, and
\* i++ leaves i below MaxAllocatedPortAttempts.
MapAgain(err, hostPort, i) ==
    err = "allocated" /\ hostPort = 0 /\ i + 1 < MaxAllocatedPortAttempts

\* One turn of the loop, lines 443-467: one call of portmapper.Map. The
\* loop variable i is gone when the loop is left.
AllocatePortMap ==
    /\ netJob.pc = "loop"
    /\ \E r \in MapOutcomes(mapped, ContainerAddr(netJob),
                            BindingIP(netJob.hostIP), netJob.hostPort) :
         IF r.err = "none"
         THEN /\ mapped' = [mapped EXCEPT ![r.host] = ContainerAddr(netJob)]
              /\ netJob' = [netJob EXCEPT !.pc = "append", !.i = 0,
                                          !.err = "none", !.host = r.host]
         ELSE /\ UNCHANGED mapped
              /\ netJob' =
                   IF MapAgain(r.err, netJob.hostPort, netJob.i)
                   THEN [netJob EXCEPT !.i = @ + 1, !.err = r.err]
                   ELSE [netJob EXCEPT !.pc = "done", !.i = 0,
                                       !.err = r.err, !.status = "error"]
    /\ UNCHANGED <<currentInterfaces, ipAllocated>>
    /\ UNCHANGED <<trapVars, daemonVars, restoreVars, createVars, bridgeVars,
                   listenVars, linkVars,
                   pauseVars, historyVars>>

\* After the loop, lines 469-484: the mapping is appended to the record,
\* then the host address is written to the job's output, which can fail.
AllocatePortAppend ==
    /\ netJob.pc = "append"
    /\ currentInterfaces' =
         [currentInterfaces EXCEPT
            ![netJob.id].PortMappings = Append(@, netJob.host)]
    /\ \E written \in BOOLEAN :
         netJob' = [netJob EXCEPT
                      !.pc = "done",
                      !.err = IF written THEN "none" ELSE "write",
                      !.status = IF written THEN "ok" ELSE "error"]
    /\ UNCHANGED <<ipAllocated, mapped>>
    /\ UNCHANGED <<trapVars, daemonVars, restoreVars, createVars, bridgeVars,
                   listenVars, linkVars,
                   pauseVars, historyVars>>

NetNext ==
    \/ \E id \in NetIds, requestedIP \in {NoIP} \cup BridgeIPs :
         Allocate(id, requestedIP)
    \/ \E id \in NetIds : Release(id)
    \/ \E id \in NetIds, r \in PortRequests :
         AllocatePortBegin(id, r.HostIP, r.HostPort, r.ContainerPort, r.Proto)
    \/ AllocatePortMap
    \/ AllocatePortAppend

\* The network variables of the other specifications.
NetIdle == NetInit

(***************************************************************************)
(* daemon/networkdriver/bridge/driver.go: InitDriver, setupIPTables,       *)
(* createBridge. Every run of init_networkdriver is the run of a newly     *)
(* started daemon (daemon.go, lines 815-829) on the same host.             *)
(***************************************************************************)

DefaultNetworkBridge == "docker0"

\* The bridge interfaces of the host: the default one and one of the user.
BridgeNames == {DefaultNetworkBridge, "br0"}

\* An address in CIDR notation; bits is 0 for a text net.ParseCIDR rejects.
NoCIDR == [ip |-> "", bits |-> 0]

BadCIDR == [ip |-> "bogus", bits |-> 0]

ParseCIDRFails(cidr) == cidr.bits = 0

\* The candidate addresses of a new bridge: the first two of the list.
addrs ==
    <<[ip |-> "172.17.42.1", bits |-> 16], [ip |-> "10.0.42.1", bits |-> 16]>>

\* The address of the bridge the user made.
UserBridgeAddr == [ip |-> "192.168.42.1", bits |-> 24]

\* The environment of an init_networkdriver job, as NewDaemonFromDirectory
\* sets it (it refuses -b with --bip and --iptables=false with --icc=false):
\* the defaults, --icc=false, --bip with an address and with a text that
\* is none, -b br0 without iptables and -b br0 with --icc=false.
InitEnv(iface, bip, iptables, icc, ipForward) ==
    [BridgeIface |-> iface, BridgeIP |-> bip, EnableIptables |-> iptables,
     InterContainerCommunication |-> icc, EnableIpForward |-> ipForward]

InitEnvs ==
    {InitEnv("", NoCIDR, TRUE, TRUE, TRUE),
     InitEnv("", NoCIDR, TRUE, FALSE, TRUE),
     InitEnv("", addrs[2], TRUE, TRUE, FALSE),
     InitEnv("", BadCIDR, FALSE, TRUE, FALSE),
     InitEnv("br0", NoCIDR, FALSE, TRUE, TRUE),
     InitEnv("br0", NoCIDR, TRUE, FALSE, TRUE)}

NoBridge == [exists |-> FALSE, addr |-> NoCIDR, up |-> FALSE]

NoInitJob ==
    [env |-> InitEnv("", NoCIDR, TRUE, TRUE, TRUE),
     status |-> "none", err |-> "none", createBridge |-> "notcalled",
     addIpFailed |-> FALSE]

\* A host without Docker rules; the user may have made the bridge br0.
BridgeInit ==
    /\ bridges \in
         {[n \in BridgeNames |-> NoBridge],
          [n \in BridgeNames |->
             IF n = DefaultNetworkBridge THEN NoBridge
             ELSE [exists |-> TRUE, addr |-> UserBridgeAddr, up |-> TRUE]]}
    /\ postrouting = <<>>
    /\ forward = <<>>
    /\ dockerChain = FALSE
    /\ ipForwarding = FALSE
    /\ netHandlers = FALSE
    /\ initJob = NoInitJob

\* The bridge variables of the other specifications.
BridgeIdle ==
    /\ bridges = [n \in BridgeNames |-> NoBridge]
    /\ postrouting = <<>>
    /\ forward = <<>>
    /\ dockerChain = FALSE
    /\ ipForwarding = FALSE
    /\ netHandlers = FALSE
    /\ initJob = NoInitJob

\* bridgeIface of InitDriver, lines 97-102.
UsingDefaultBridge_Always(env) == TRUE

UsingDefaultBridge(env) == env.BridgeIface = ""

BridgeIfaceOf(env) ==
    IF env.BridgeIface = "" THEN DefaultNetworkBridge ELSE env.BridgeIface

\* networkdriver.GetIfaceAddr(name) returns an error: there is no such
\* interface, or it has no address.
GetIfaceAddrFails(b, name) == ~b[name].exists \/ b[name].addr = NoCIDR

\* The loop of createBridge, lines 291-304: the first candidate that
\* overlaps neither a nameserver nor a route (busy: those that do).
FirstFree(busy) ==
    LET free == {i \in 1..Len(addrs) : addrs[i] \notin busy} IN
    IF free = {} THEN NoCIDR
    ELSE addrs[CHOOSE i \in free : \A j \in free : i <= j]

\* createBridge, lines 271-336: what it returns, the bridges it leaves and
\* whether netlink.NetworkLinkAddIp failed. Line 328 tests the err of the
\* ParseCIDR of line 322, which is nil there, and drops the result of
\* NetworkLinkAddIp.
CreateBridgeResults(b, name, bridgeIP) ==
    LET result(e, bb, f) == [err |-> e, bridges |-> bb, addIpFailed |-> f]
        ifaceAddrs ==
            IF bridgeIP # NoCIDR
            THEN IF ParseCIDRFails(bridgeIP) THEN {} ELSE {bridgeIP}
            ELSE {FirstFree(busy) : busy \in SUBSET Range(addrs)}
        created == [b EXCEPT ![name].exists = TRUE]
        linkUp(bb, f) ==
            {result("linkup", bb, f),
             result("none", [bb EXCEPT ![name].up = TRUE], f)}
        after(ifaceAddr) ==
            IF ifaceAddr = NoCIDR THEN {result("norange", b, FALSE)}
            ELSE {result("createiface", b, FALSE)}
                 \cup (IF b[name].exists THEN {}
                       ELSE {result("byname", created, FALSE)}
                            \cup linkUp([created EXCEPT ![name].addr = ifaceAddr],
                                        FALSE)
                            \cup linkUp(created, TRUE))
    IN  (IF bridgeIP # NoCIDR /\ ParseCIDRFails(bridgeIP)
         THEN {result("parse", b, FALSE)} ELSE {})
        \cup UNION {after(a) : a \in ifaceAddrs}

\* network.IP.Equal(bip), line 139.
IPEqual(network, bip) == network.ip = bip.ip

\* InitDriver, lines 97-143: the bridge is looked up, created or checked.
BridgeResults(b, env) ==
    LET name == BridgeIfaceOf(env)
        result(e, bb, a, c, f) ==
            [err |-> e, bridges |-> bb, addr |-> a, createBridge |-> c,
             addIpFailed |-> f]
    IN  IF GetIfaceAddrFails(b, name)
        THEN IF ~UsingDefaultBridge(env)
             THEN {result("notfound", b, NoCIDR, "notcalled", FALSE)}
             ELSE {IF r.err # "none"
                   THEN result(r.err, r.bridges, NoCIDR, r.err, r.addIpFailed)
                   ELSE IF GetIfaceAddrFails(r.bridges, name)
                   THEN result("noaddr", r.bridges, NoCIDR, "none",
                               r.addIpFailed)
                   ELSE result("none", r.bridges, r.bridges[name].addr, "none",
                               r.addIpFailed) :
                   r \in CreateBridgeResults(b, name, env.BridgeIP)}
        ELSE IF env.BridgeIP # NoCIDR /\ ParseCIDRFails(env.BridgeIP)
        THEN {result("parse", b, NoCIDR, "notcalled", FALSE)}
        ELSE IF env.BridgeIP # NoCIDR /\ ~IPEqual(b[name].addr, env.BridgeIP)
        THEN {result("mismatch", b, NoCIDR, "notcalled", FALSE)}
        ELSE {result("none", b, b[name].addr, "notcalled", FALSE)}

\* A rule of iptables: the MASQUERADE rule of a bridge network, or a
\* FORWARD rule of a bridge ("existing", "outgoing", "ACCEPT", "DROP").
Rule(kind, src, iface) == [kind |-> kind, src |-> src, iface |-> iface]

\* iptables.Exists(args...): the chain has the rule.
RuleExists(chain, rule) == rule \in Range(chain)

\* iptables -I: the rule becomes the first of the chain.
InsertRule(chain, rule) == <<rule>> \o chain

\* iptables -D: the first rule equal to the one given goes; without such
\* a rule the command fails and the chain stays.
DeleteRule(chain, rule) ==
    IF ~RuleExists(chain, rule) THEN chain
    ELSE LET i == CHOOSE k \in 1..Len(chain) :
                     chain[k] = rule /\ \A j \in 1..(k - 1) : chain[j] # rule
         IN  SubSeq(chain, 1, i - 1) \o SubSeq(chain, i + 1, Len(chain))

\* if !iptables.Exists(...), lines 205, 222, 233, 246 and 258.
NeedsInsert_Always(chain, rule) == TRUE

NeedsInsert(chain, rule) == ~RuleExists(chain, rule)

\* Lines 219-221 and 230-232: the rule of the other polarity is deleted
\* first; the result of the command is dropped.
WithoutOpposite_Kept(chain, icc, iface) == chain

WithoutOpposite(chain, icc, iface) ==
    DeleteRule(chain, Rule(IF icc THEN "DROP" ELSE "ACCEPT", NoCIDR, iface))

\* setupIPTables, lines 200-266: the error it returns and the chains it
\* leaves. An insert that is made can fail, which ends the function.
SetupIPTablesResults(pr, fw, addr, iface, icc) ==
    LET result(e, p, f) == [err |-> e, postrouting |-> p, forward |-> f]
        natRule == Rule("MASQUERADE", addr, iface)
        iccRule == Rule(IF icc THEN "ACCEPT" ELSE "DROP", NoCIDR, iface)
        outgoingRule == Rule("outgoing", NoCIDR, iface)
        existingRule == Rule("existing", NoCIDR, iface)
        natNeeded == NeedsInsert(pr, natRule)
        pr1 == IF natNeeded THEN InsertRule(pr, natRule) ELSE pr
        fw0 == WithoutOpposite(fw, icc, iface)
        iccNeeded == NeedsInsert(fw0, iccRule)
        fw1 == IF iccNeeded THEN InsertRule(fw0, iccRule) ELSE fw0
        outgoingNeeded == NeedsInsert(fw1, outgoingRule)
        fw2 == IF outgoingNeeded THEN InsertRule(fw1, outgoingRule) ELSE fw1
        existingNeeded == NeedsInsert(fw2, existingRule)
        fw3 == IF existingNeeded THEN InsertRule(fw2, existingRule) ELSE fw2
    IN  {result("none", pr1, fw3)}
        \cup (IF natNeeded THEN {result("nat", pr, fw)} ELSE {})
        \cup (IF iccNeeded THEN {result("icc", pr1, fw0)} ELSE {})
        \cup (IF outgoingNeeded THEN {result("outgoing", pr1, fw1)} ELSE {})
        \cup (IF existingNeeded THEN {result("existing", pr1, fw2)} ELSE {})

\* InitDriver, lines 145-196, after the bridge was found: iptables, IPv4
\* forwarding (a failure is a warning), the DOCKER chain, the handlers.
AfterBridgeResults(pr, fw, chain, fwd, env, addr) ==
    LET result(e, p, f, c, w) ==
            [err |-> e, postrouting |-> p, forward |-> f, dockerChain |-> c,
             ipForwarding |-> w]
        setups ==
            IF env.EnableIptables
            THEN SetupIPTablesResults(pr, fw, addr, BridgeIfaceOf(env),
                                      env.InterContainerCommunication)
            ELSE {[err |-> "none", postrouting |-> pr, forward |-> fw]}
        forwardings == IF env.EnableIpForward THEN {TRUE, fwd} ELSE {fwd}
    IN  UNION {
          IF t.err # "none"
          THEN {result(t.err, t.postrouting, t.forward, chain, fwd)}
          ELSE UNION {
                 {result("removechain", t.postrouting, t.forward, chain, w)}
                 \cup (IF env.EnableIptables
                       THEN {result("newchain", t.postrouting, t.forward,
                                    FALSE, w),
                             result("none", t.postrouting, t.forward, TRUE, w)}
                       ELSE {result("none", t.postrouting, t.forward, FALSE,
                                    w)}) :
                 w \in forwardings} :
          t \in setups}

\* Lines 186-196: the four handlers are registered after every step that
\* can return an error.
HandlersRegistered_Always(err) == TRUE

HandlersRegistered(err) == err = "none"

\* InitDriver, lines 84-197, run by a newly started daemon: the handlers
\* are registered when every step before succeeded.
InitDriver(env) ==
    /\ \E b \in BridgeResults(bridges, env) :
         /\ bridges' = b.bridges
         /\ IF b.err # "none"
            THEN /\ initJob' = [env |-> env, status |-> "error", err |-> b.err,
                                createBridge |-> b.createBridge,
                                addIpFailed |-> b.addIpFailed]
                 /\ netHandlers' = HandlersRegistered(b.err)
                 /\ UNCHANGED <<postrouting, forward, dockerChain, ipForwarding>>
            ELSE \E r \in AfterBridgeResults(postrouting, forward, dockerChain,
                                             ipForwarding, env, b.addr) :
                   /\ postrouting' = r.postrouting
                   /\ forward' = r.forward
                   /\ dockerChain' = r.dockerChain
                   /\ ipForwarding' = r.ipForwarding
                   /\ netHandlers' = HandlersRegistered(r.err)
                   /\ initJob' = [env |-> env,
                                  status |-> IF r.err = "none" THEN "ok"
                                             ELSE "error",
                                  err |-> r.err,
                                  createBridge |-> b.createBridge,
                                  addIpFailed |-> b.addIpFailed]
    /\ UNCHANGED <<trapVars, daemonVars, restoreVars, createVars, netVars,
                   listenVars, linkVars,
                   pauseVars, historyVars>>

BridgeNext == \E env \in InitEnvs : InitDriver(env)

\* config.DisableNetwork, daemon.go line 694: the bridge is named "none".
DisableNetworkBridge == "none"

\* The handlers InitDriver registers.
NetHandlerNames ==
    {"allocate_interface", "release_interface", "allocate_port", "link"}

\* NewDaemonFromDirectory, lines 815-829: the one init_networkdriver job of
\* a daemon.
BootNetwork(env) ==
    /\ initJob.status = "none"
    /\ InitDriver(env)

\* The same lines with config.DisableNetwork: the job is not run.
BootWithoutNetwork ==
    /\ initJob.status = "none"
    /\ initJob' = [NoInitJob EXCEPT !.env.BridgeIface = DisableNetworkBridge,
                                    !.status = "disabled"]
    /\ UNCHANGED <<bridges, postrouting, forward, dockerChain, ipForwarding,
                   netHandlers>>
    /\ UNCHANGED <<trapVars, daemonVars, restoreVars, createVars, netVars,
                   listenVars, linkVars, pauseVars, historyVars>>

\* A job of one of the four names is submitted: the engine runs the
\* handler registered under the name, or fails when there is none.
SubmitNetJob(name) ==
    /\ netJob' = [NoJob EXCEPT !.kind = name,
                               !.status = IF netHandlers THEN "handled"
                                          ELSE "nosuchhandler"]
    /\ UNCHANGED <<currentInterfaces, ipAllocated, mapped>>
    /\ UNCHANGED bridgeVars
    /\ UNCHANGED <<trapVars, daemonVars, restoreVars, createVars,
                   listenVars, linkVars, pauseVars, historyVars>>

HandlersNext ==
    \/ \E env \in InitEnvs : BootNetwork(env)
    \/ BootWithoutNetwork
    \/ \E name \in NetHandlerNames : SubmitNetJob(name)

(***************************************************************************)
(* daemon/networkdriver/bridge/driver.go: LinkContainers, the link job.     *)
(***************************************************************************)

\* The addresses of the two containers of a link.
ParentIP == "172.17.0.2"
ChildIP == "172.17.0.3"

\* The entries "port/proto" of the Ports list, as split at line 497.
LinkPorts == {[port |-> 80, proto |-> "tcp"], [port |-> 53, proto |-> "udp"]}

\* The longest Ports list of a link job of the model.
MaxLinkPorts == 2

\* The most link rules FORWARD holds in the model.
MaxLinkRules == 4

PortLists == UNION {[1..n -> LinkPorts] : n \in 0..MaxLinkPorts}

\* The arguments and environment of a link job, lines 489-493.
LinkRequest(action, ignoreErrors, ports) ==
    [action |-> action, ParentIP |-> ParentIP, ChildIP |-> ChildIP,
     IgnoreErrors |-> ignoreErrors, Ports |-> ports]

LinkRequests ==
    {LinkRequest(action, ignoreErrors, ports) :
        action \in {"-I", "-D"}, ignoreErrors \in BOOLEAN, ports \in PortLists}

\* The rule of lines 502-508 (match "dport": parent to child) and of lines
\* 514-520 (match "sport": child to parent), both from and to the bridge.
LinkRule(match, p, src, dst, iface) ==
    [kind |-> "link", match |-> match, proto |-> p.proto, port |-> p.port,
     src |-> src, dst |-> dst, iface |-> iface]

\* The rules of the iptables calls of one job, in the order of the calls.
LinkCalls(r, iface) ==
    [k \in 1..(2 * Len(r.Ports)) |->
        LET p == r.Ports[(k + 1) \div 2]
        IN  IF k % 2 = 1
            THEN LinkRule("dport", p, r.ParentIP, r.ChildIP, iface)
            ELSE LinkRule("sport", p, r.ChildIP, r.ParentIP, iface)]

\* One iptables.Raw(action, "FORWARD", ...): the chain after the command.
RawApplied_AlwaysInsert(chain, action, rule) == InsertRule(chain, rule)

RawApplied(chain, action, rule) ==
    IF action = "-I" THEN InsertRule(chain, rule) ELSE DeleteRule(chain, rule)

\* Lines 508 and 520: the error of iptables.Raw ends the job unless
\* IgnoreErrors is set.
EndsJob(ignoreErrors) == ~ignoreErrors

\* The loop of lines 500-525 from the call `calls[1]` on. A command may
\* fail (a -D of a rule the chain does not hold always does): the job ends
\* with that error, or goes on when it ignores errors. A command that
\* succeeds and prints something ends the job with an error (lines 510,
\* 522). `failed` says that some command of the job has failed.
RECURSIVE LinkResults(_, _, _, _)
LinkResults(chain, calls, r, failed) ==
    IF calls = <<>>
    THEN {[forward |-> chain, status |-> "ok", failed |-> failed]}
    ELSE LET rule == Head(calls)
             works == r.action = "-I" \/ RuleExists(chain, rule)
             applied == RawApplied(chain, r.action, rule)
         IN  (IF works
              THEN LinkResults(applied, Tail(calls), r, failed)
                   \cup {[forward |-> applied, status |-> "error",
                          failed |-> failed]}
              ELSE {})
             \cup
             (IF EndsJob(r.IgnoreErrors)
              THEN {[forward |-> chain, status |-> "error", failed |-> TRUE]}
              ELSE LinkResults(chain, Tail(calls), r, TRUE))

NoLinkRun == [r |-> LinkRequest("none", FALSE, <<>>), status |-> "none",
              failed |-> FALSE]

\* No link job yet. `ins` is the last -I job and `before` the chain it
\* found, both kept while the job after it is the -D with its arguments.
NoLinkJob ==
    [run |-> NoLinkRun, ins |-> NoLinkRun, before |-> <<>>, undo |-> FALSE]

LinkIdle == linkJob = NoLinkJob

\* The number of link rules of a chain.
LinkRuleCount(chain) ==
    Cardinality({k \in 1..Len(chain) : chain[k].kind = "link"})

\* The host after a successful init_networkdriver for the default bridge,
\* with the iptables rules or, with --iptables=false, without them.
LinkInit ==
    /\ bridges = [n \in BridgeNames |->
                    IF n = DefaultNetworkBridge
                    THEN [exists |-> TRUE, addr |-> addrs[1], up |-> TRUE]
                    ELSE NoBridge]
    /\ \E iptables \in BOOLEAN :
          /\ initJob = [env |-> InitEnv("", NoCIDR, iptables, TRUE, TRUE),
                        status |-> "ok", err |-> "none",
                        createBridge |-> "none", addIpFailed |-> FALSE]
          /\ forward = IF iptables
                       THEN <<Rule("existing", NoCIDR, DefaultNetworkBridge),
                              Rule("outgoing", NoCIDR, DefaultNetworkBridge),
                              Rule("ACCEPT", NoCIDR, DefaultNetworkBridge)>>
                       ELSE <<>>
          /\ postrouting = IF iptables
                           THEN <<Rule("MASQUERADE", addrs[1],
                                       DefaultNetworkBridge)>>
                           ELSE <<>>
          /\ dockerChain = iptables
    /\ ipForwarding = TRUE
    /\ netHandlers = TRUE
    /\ linkJob = NoLinkJob

\* The link job of request r, run to its end.
LinkContainers(r) ==
    /\ netHandlers
    /\ r.action = "-I" => LinkRuleCount(forward) + 2 * Len(r.Ports) <= MaxLinkRules
    /\ \E res \in LinkResults(forward, LinkCalls(r, BridgeIfaceOf(initJob.env)),
                               r, FALSE) :
          LET run == [r |-> r, status |-> res.status, failed |-> res.failed]
              undo == /\ r.action = "-D"
                      /\ linkJob.run.r.action = "-I"
                      /\ linkJob.run.r.Ports = r.Ports
          IN  /\ forward' = res.forward
              /\ linkJob' =
                   IF r.action = "-I"
                   THEN [run |-> run, ins |-> run, before |-> forward,
                         undo |-> FALSE]
                   ELSE IF undo
                   THEN [linkJob EXCEPT !.run = run, !.undo = TRUE]
                   ELSE [NoLinkJob EXCEPT !.run = run]
    /\ UNCHANGED <<bridges, postrouting, dockerChain, ipForwarding,
                   netHandlers, initJob>>
    /\ UNCHANGED <<trapVars, daemonVars, restoreVars, createVars, netVars,
                   listenVars, pauseVars, historyVars>>

LinkNext == \E r \in LinkRequests : LinkContainers(r)

(***************************************************************************)
(* daemon/daemon.go: Daemon.Pause and Daemon.Unpause.                       *)
(***************************************************************************)

NewState(running) == [Running |-> running, Paused |-> FALSE]

NoPauseJob ==
    [op |-> "none", id |-> "none", driverErr |-> FALSE, err |-> FALSE]

\* Containers created or started, none of them paused.
PauseInit ==
    /\ state \in [ContainerIds -> {NewState(TRUE), NewState(FALSE)}]
    /\ frozen = [c \in ContainerIds |-> FALSE]
    /\ pauseJob = NoPauseJob

\* The pause variables of the other specifications.
PauseIdle ==
    /\ state = [c \in ContainerIds |-> NewState(FALSE)]
    /\ frozen = [c \in ContainerIds |-> FALSE]
    /\ pauseJob = NoPauseJob

\* State.SetPaused and State.SetUnpaused.
SetPaused(st) == [st EXCEPT !.Paused = TRUE]

SetUnpaused(st) == [st EXCEPT !.Paused = FALSE]

\* execDriver.Pause and execDriver.Unpause: the freezer of the container's
\* cgroup is written; without a running container there is no cgroup and
\* the call fails; with one the call may fail, with the processes left as
\* they were or already in the state asked for.
DriverOutcomes(c, freeze) ==
    {[err |-> TRUE, frozen |-> frozen[c]]}
    \cup (IF state[c].Running
          THEN {[err |-> e, frozen |-> freeze] : e \in BOOLEAN}
          ELSE {})

\* Lines 1008-1010 and 1016-1018: the error of the driver is returned
\* before the state is touched.
ReturnsDriverError_Never(err) == FALSE

ReturnsDriverError(err) == err

\* Daemon.Pause, lines 1007-1013.
Pause(c) ==
    /\ \E out \in DriverOutcomes(c, TRUE) :
          /\ frozen' = [frozen EXCEPT ![c] = out.frozen]
          /\ state' = IF ReturnsDriverError(out.err) THEN state
                      ELSE [state EXCEPT ![c] = SetPaused(@)]
          /\ pauseJob' = [op |-> "pause", id |-> c, driverErr |-> out.err,
                          err |-> ReturnsDriverError(out.err)]
    /\ UNCHANGED <<trapVars, daemonVars, restoreVars, createVars, netVars,
                   bridgeVars, listenVars, linkVars, historyVars>>

\* Daemon.Unpause, lines 1015-1021.
Unpause(c) ==
    /\ \E out \in DriverOutcomes(c, FALSE) :
          /\ frozen' = [frozen EXCEPT ![c] = out.frozen]
          /\ state' = IF ReturnsDriverError(out.err) THEN state
                      ELSE [state EXCEPT ![c] = SetUnpaused(@)]
          /\ pauseJob' = [op |-> "unpause", id |-> c, driverErr |-> out.err,
                          err |-> ReturnsDriverError(out.err)]
    /\ UNCHANGED <<trapVars, daemonVars, restoreVars, createVars, netVars,
                   bridgeVars, listenVars, linkVars, historyVars>>

PauseNext ==
    \/ \E c \in ContainerIds : Pause(c)
    \/ \E c \in ContainerIds : Unpause(c)

(***************************************************************************)
(* pkg/listenbuffer: the listeners of the serveapi job, which hold the      *)
(* connections until the daemon has booted.                                 *)
(***************************************************************************)

\* The hosts of the serveapi job (flHosts), one buffered listener each.
Listeners == {"unix", "tcp"}

\* Connections one listener returns before the model stops counting.
MaxConns == 2

\* NewListenBuffer: ready is the zero value, nobody is in Accept.
ListenInit ==
    /\ ready = [l \in Listeners |-> FALSE]
    /\ acceptPc = [l \in Listeners |-> "idle"]
    /\ handed = [l \in Listeners |-> 0]

\* The listener variables of the other specifications.
ListenIdle == ListenInit

\* Line 44: if l.ready.
Ready_Always(l) == TRUE

Ready(l) == ready[l]

\* The server calls Accept: a ready listener goes to wrapped.Accept(),
\* any other one to the receive on l.activate.
AcceptCall(l) ==
    /\ ~exited
    /\ acceptPc[l] = "idle"
    /\ handed[l] < MaxConns
    /\ acceptPc' = [acceptPc EXCEPT ![l] = IF Ready(l) THEN "wrapped"
                                          ELSE "waiting"]
    /\ UNCHANGED <<ready, handed>>
    /\ UNCHANGED <<trapVars, daemonVars, restoreVars, createVars, netVars,
                   bridgeVars, linkVars, pauseVars, historyVars>>

\* Lines 47-49: the receive on l.activate returns once the channel is
\* closed; ready is set and the recursive call, which now finds ready
\* true, goes to wrapped.Accept().
AcceptActivated(l) ==
    /\ ~exited
    /\ acceptPc[l] = "waiting"
    /\ activated
    /\ ready' = [ready EXCEPT ![l] = TRUE]
    /\ acceptPc' = [acceptPc EXCEPT ![l] = "wrapped"]
    /\ UNCHANGED handed
    /\ UNCHANGED <<trapVars, daemonVars, restoreVars, createVars, netVars,
                   bridgeVars, linkVars, pauseVars, historyVars>>

\* Line 45: wrapped.Accept() returns, a connection or an error, and Accept
\* returns the same to the server.
AcceptReturn(l) ==
    /\ ~exited
    /\ acceptPc[l] = "wrapped"
    /\ \E conn \in BOOLEAN :
          handed' = [handed EXCEPT ![l] = IF conn THEN @ + 1 ELSE @]
    /\ acceptPc' = [acceptPc EXCEPT ![l] = "idle"]
    /\ UNCHANGED ready
    /\ UNCHANGED <<trapVars, daemonVars, restoreVars, createVars, netVars,
                   bridgeVars, linkVars, pauseVars, historyVars>>

\* The boot goroutine and the server's Accept calls run side by side.
ListenNext ==
    \/ BootStep
    \/ BootStepFails
    \/ \E l \in Listeners : AcceptCall(l)
    \/ \E l \in Listeners : AcceptActivated(l)
    \/ \E l \in Listeners : AcceptReturn(l)

\* The trap variables of the daemon specification: the trap is installed
\* before the boot goroutine starts; of its state only the call of cleanup
\* and the exit of the process are used here.
TrapIdle ==
    /\ debugEnv = FALSE
    /\ subscribed = TrapSignals(debugEnv)
    /\ chanC = <<>>
    /\ sent = 0
    /\ handlers = <<>>
    /\ interruptCount = 0
    /\ cleanupCalls = 0
    /\ cleanupState = "idle"
    /\ exited = FALSE
    /\ exitStatus = 0

DaemonSpecInit == TrapIdle /\ DaemonInit /\ RestoreIdle /\ CreateIdle /\ NetIdle /\ BridgeIdle /\ ListenIdle /\ LinkIdle /\ PauseIdle /\ HistoryIdle

SpecDaemon == DaemonSpecInit /\ [][DaemonNext]_vars
TrapSpecInit == TrapInit /\ DaemonIdle /\ RestoreIdle /\ CreateIdle /\ NetIdle /\ BridgeIdle /\ ListenIdle /\ LinkIdle /\ PauseIdle /\ HistoryIdle

RestoreSpecInit == TrapIdle /\ DaemonIdle /\ RestoreInit /\ CreateIdle /\ NetIdle /\ BridgeIdle /\ ListenIdle /\ LinkIdle /\ PauseIdle /\ HistoryIdle

RestartSpecInit == TrapIdle /\ DaemonIdle /\ RestartInit /\ CreateIdle /\ NetIdle /\ BridgeIdle /\ ListenIdle /\ LinkIdle /\ PauseIdle /\ HistoryIdle

SpecRestart == RestartSpecInit /\ [][RestoreNext]_vars

CreateSpecInit == TrapIdle /\ DaemonIdle /\ CreateInit /\ NetIdle /\ BridgeIdle /\ ListenIdle /\ LinkIdle /\ PauseIdle /\ HistoryIdle

SpecCreate == CreateSpecInit /\ [][CreateNext]_vars

NetSpecInit ==
    TrapIdle /\ DaemonIdle /\ RestoreIdle /\ CreateIdle /\ NetInit /\ BridgeIdle /\ ListenIdle /\ LinkIdle /\ PauseIdle /\ HistoryIdle

SpecNet == NetSpecInit /\ [][NetNext]_vars

BridgeSpecInit ==
    TrapIdle /\ DaemonIdle /\ RestoreIdle /\ CreateIdle /\ NetIdle /\ BridgeInit
    /\ ListenIdle /\ LinkIdle /\ PauseIdle /\ HistoryIdle

LinkSpecInit ==
    TrapIdle /\ DaemonIdle /\ RestoreIdle /\ CreateIdle /\ NetIdle /\ LinkInit
    /\ ListenIdle /\ PauseIdle /\ HistoryIdle

SpecLink == LinkSpecInit /\ [][LinkNext]_vars

PauseSpecInit ==
    TrapIdle /\ DaemonIdle /\ RestoreIdle /\ CreateIdle /\ NetIdle /\ BridgeIdle
    /\ ListenIdle /\ LinkIdle /\ PauseInit /\ HistoryIdle

SpecPause == PauseSpecInit /\ [][PauseNext]_vars

RestoreTwiceSpecInit ==
    TrapIdle /\ DaemonIdle /\ RestoreTwiceInit /\ CreateIdle /\ NetIdle
    /\ BridgeIdle /\ ListenIdle /\ LinkIdle /\ PauseIdle /\ HistoryIdle

SpecRestoreTwice == RestoreTwiceSpecInit /\ [][RestoreTwiceNext]_vars

SpecHandlers == BridgeSpecInit /\ [][HandlersNext]_vars

ListenSpecInit ==
    TrapIdle /\ DaemonInit /\ RestoreIdle /\ CreateIdle /\ NetIdle /\ BridgeIdle
    /\ ListenInit /\ LinkIdle /\ PauseIdle /\ HistoryIdle

SpecListen == ListenSpecInit /\ [][ListenNext]_vars

SpecBridge == BridgeSpecInit /\ [][BridgeNext]_vars

SpecRestore == RestoreSpecInit /\ [][RestoreNext]_vars

SpecTrap == TrapSpecInit /\ [][TrapNext]_vars

(***************************************************************************)
(* Claims about the signal trap (checked under SpecTrap).                  *)
(***************************************************************************)
Interrupts == {SIGINT, SIGTERM}

\* The handlers spawned for a SIGINT or SIGTERM.
InterruptHandlers == {h \in DOMAIN handlers : handlers[h].sig \in Interrupts}

\* h is the n-th SIGINT/SIGTERM that the trap received.
InterruptRank(h) == Cardinality({k \in InterruptHandlers : k <= h})

ForcedByInterrupt ==
    /\ exited
    /\ \E h \in InterruptHandlers :
          /\ handlers[h].pc = "exited"
          /\ exitStatus = 128 + handlers[h].sig

\* C1 (as claimed): the third SIGINT/SIGTERM received by the trap ends the
\* process at once; its handler never just counts itself and returns.
C1_ThirdInterruptForcesExit ==
    \A h \in InterruptHandlers :
        InterruptRank(h) = 3 => handlers[h].pc # "returned"

\* C1 (amended): a SIGINT/SIGTERM handler ends the process without cleanup
\* only when it finds three signals already counted, so never before the
\* fourth SIGINT/SIGTERM; a handler that finds the counter at 3 or more goes
\* straight to os.Exit(128 + signal), one that finds less counts itself.
C1_FourthInterruptForcesExit ==
    /\ [](/\ ForcedByInterrupt =>
                /\ interruptCount >= ForceThreshold
                /\ Cardinality(InterruptHandlers) >= ForceThreshold + 1
          /\ \A h \in InterruptHandlers :
                handlers[h].pc = "force" => interruptCount >= ForceThreshold)
    /\ [][\A h \in InterruptHandlers :
             (handlers[h].pc = "start" /\ handlers'[h].pc # "start") =>
                 handlers'[h].pc =
                     IF interruptCount >= ForceThreshold THEN "force" ELSE "add"]_vars

\* C1 witness: the fourth signal has ended the process with 128 + signal
\* while the cleanup started by the first was still running, the second and
\* the third having only counted themselves.
C1_Witness ==
    /\ ForcedByInterrupt
    /\ cleanupState = "running"
    /\ Cardinality(InterruptHandlers) = 4
    /\ \E h \in InterruptHandlers : InterruptRank(h) = 4 /\ handlers[h].pc = "exited"
    /\ \A h \in InterruptHandlers :
          InterruptRank(h) \in {2, 3} => handlers[h].pc = "returned"

\* C2 (as claimed): once at least one SIGINT/SIGTERM was received (and no
\* more than three, no SIGQUIT) and every handler has run to its end,
\* cleanup has been invoked and the process has exited with status 0.
C2_InterruptCleansUpAndExitsZero ==
    ( /\ ~debugEnv
      /\ chanC = <<>>
      /\ Len(handlers) \in 1..ForceThreshold
      /\ InterruptHandlers = DOMAIN handlers
      /\ \/ exited
         \/ \A h \in DOMAIN handlers : handlers[h].pc = "returned" )
    => (cleanupCalls >= 1 /\ exited /\ exitStatus = 0)

\* C3: the cleanup callback is invoked at most once.
C3_CleanupAtMostOnce == cleanupCalls <= 1

\* C3 witness: cleanup was invoked although several signals were handled.
C3_Witness ==
    /\ cleanupCalls = 1
    /\ Cardinality({h \in InterruptHandlers :
                       handlers[h].pc \in {"returned", "incleanup"}}) >= 3

\* C4 (as claimed): SIGQUIT is subscribed exactly when DEBUG is set, and a
\* SIGQUIT sent with DEBUG set ends the process with 128 + SIGQUIT.
C4_SigquitTrappedIffDebug ==
    /\ (SIGQUIT \in subscribed) <=> debugEnv
    /\ (exited /\ exitStatus = 128 + SIGQUIT) => debugEnv
    /\ (exited /\ debugEnv) => exitStatus # GoRuntimeQuitStatus

(***************************************************************************)
(* Claims about boot and shutdown (checked under SpecDaemon).              *)
(***************************************************************************)
IsPrefix(s, t) == Len(s) <= Len(t) /\ \A i \in 1..Len(s) : s[i] = t[i]

FullShutdownOrder ==
    <<"stop_containers", "release_ports", "driver_cleanup", "close_db",
      "remove_pidfile">>

\* Engine.Shutdown was called after a boot that had succeeded.
GracefulAfterBoot == bootAtShutdown = Len(BootOrder) + 1

\* C5: in a shutdown after a successful boot with a pidfile configured the
\* steps run in the order stop containers, release ports, driver cleanup,
\* close the name-graph DB, remove the pidfile: at any moment the steps done
\* are a prefix of that order, all of them are done when the process exits,
\* and the pidfile goes only after the DB was closed.
C5_ShutdownOrder ==
    (pidfileCfg /\ GracefulAfterBoot) =>
        /\ IsPrefix(shutdownLog, FullShutdownOrder)
        /\ (shutPc = "done" => shutdownLog = FullShutdownOrder)
        /\ (~pidfileExists =>
               \E i \in DOMAIN shutdownLog : shutdownLog[i] = "close_db")

\* C5 witness: such a shutdown has run to its end.
C5_Witness ==
    /\ pidfileCfg
    /\ GracefulAfterBoot
    /\ exited
    /\ exitStatus = 0
    /\ ~pidfileExists
    /\ shutdownLog = FullShutdownOrder

\* C6 (as claimed): the stop-containers step of a shutdown after boot always
\* completes: while Daemon.shutdown has not returned some step of it is
\* possible (a container that ignores SIGTERM is killed), and once it has
\* returned no container is running any more.
C6_StopContainersCompletes ==
    /\ (BootDone /\ InHookStep("stop_containers")) => ENABLED DaemonNext
    /\ (GracefulAfterBoot /\ shutdownLog # <<>>) =>
           \A c \in ContainerIds : cstate[c] # "running"

(***************************************************************************)
(* Claims about restore and register                                       *)
(***************************************************************************)

\* register has returned nil for the container d, loaded in state Running,
\* and nothing else has touched the container since.
RegisteredFromRunning(d) ==
    /\ restorePc = "graph"
    /\ regResult[d] = "ok"
    /\ mem[d].loadedRunning

\* The process of d was alive when the daemon booted.
AliveAtBoot(d) == proc[d] \in {"alive", "killed"}

\* C7 (as claimed): a container loaded in state Running whose process was
\* still alive is adopted: after register it is Running in memory with its
\* recorded pid and the daemon has not terminated its process.
C7_AliveContainerAdopted ==
    \A d \in DirIds :
        (RegisteredFromRunning(d) /\ AliveAtBoot(d)) =>
            /\ mem[d].running
            /\ mem[d].pid = SomePid
            /\ proc[d] = "alive"

\* C8: a container loaded in state Running whose process the exec driver
\* reports as not running is, when register returns nil, Stopped with exit
\* code -127 in memory and in config.json.
C8_DeadContainerMarkedStopped ==
    \A d \in DirIds :
        (RegisteredFromRunning(d) /\ proc[d] # "alive") =>
            /\ ~mem[d].running
            /\ mem[d].exitCode = DeadExitCode
            /\ ~disk[d].running
            /\ disk[d].pid = 0
            /\ disk[d].exitCode = DeadExitCode

\* C8 witness: register has returned nil for a container loaded as Running
\* whose process had died before the daemon booted.
C8_Witness ==
    \E d \in DirIds :
        /\ RegisteredFromRunning(d)
        /\ proc[d] = "dead"
        /\ disk[d].exitCode = DeadExitCode

\* C9 (as claimed): after register has returned for a container loaded in
\* state Running, the stored state is running if and only if the exec
\* driver reports the container running.
C9_StoredStateAgreesWithDriver ==
    \A d \in DirIds :
        RegisteredFromRunning(d) => (mem[d].running <=> proc[d] = "alive")

\* The container directory d loads and belongs to the current graph driver.
Restorable(d) ==
    /\ disk[d].load = "ok"
    /\ \/ disk[d].driver = currentDriver
       \/ (disk[d].driver = "" /\ currentDriver = "aufs")

RegisterCalledOn == {registeredContainers[i] : i \in 1..Len(registeredContainers)}

\* C10: whatever directories fail to load, once the directory listing has
\* been read restore never returns an error, and when it has returned,
\* register has been called once on each directory that loads and belongs to
\* the current graph driver and on no other; a directory that fails to load
\* is neither loaded nor in the store, and a container whose register
\* returned nil is in the store.
C10_LoadFailuresSkipped ==
    /\ [](restorePc = "done" /\ restoreResult = "ok" =>
            /\ RegisterCalledOn = {d \in DirIds : Restorable(d)}
            /\ Len(registeredContainers) = Cardinality(RegisterCalledOn)
            /\ \A d \in DirIds :
                  /\ disk[d].load # "ok" => (d \notin store /\ ~mem[d].loaded)
                  /\ regResult[d] = "ok" => d \in store)
    /\ [][restorePc # "readdir" => restoreResult' # "error"]_vars

\* C10 witness: restore has returned nil where one directory had a stored ID
\* other than its name, and the other container is in the store.
C10_Witness ==
    /\ restorePc = "done"
    /\ restoreResult = "ok"
    /\ \E d, e \in DirIds :
          /\ disk[d].load = "idmismatch"
          /\ regResult[e] = "ok"
          /\ e \in store

\* The container d was created under the current graph driver.
OfCurrentDriver(d) ==
    \/ disk[d].driver = currentDriver
    \/ (disk[d].driver = "" /\ currentDriver = "aufs")

\* The loop of lines 306-325 has dealt with the directory d.
LoadLoopPassed(d) ==
    /\ restorePc # "readdir"
    /\ \A i \in 1..Len(todo) : todo[i] # d

\* C11: once the load loop has dealt with a directory that loads, its
\* container is kept for registration (it is in the map containers, or
\* register has been called on it) if and only if its Driver is the current
\* graph driver, or is empty while the current driver is aufs; a container
\* of another driver is never in the store or the ID index.
C11_KeptIffCurrentDriver ==
    \A d \in DirIds :
        /\ (LoadLoopPassed(d) /\ mem[d].loaded) =>
              ((d \in kept \cup RegisterCalledOn) <=> OfCurrentDriver(d))
        /\ ~OfCurrentDriver(d) => (d \notin store /\ d \notin idIndex)

\* C11 witness: restore has returned where one loaded container was made
\* under another graph driver and is not in the store, and a container
\* with an empty Driver is in the store under aufs.
C11_Witness ==
    /\ restorePc = "done"
    /\ restoreResult = "ok"
    /\ \E d, e \in DirIds :
          /\ mem[d].loaded
          /\ disk[d].driver = "vfs"
          /\ currentDriver = "aufs"
          /\ d \notin store
          /\ mem[e].loaded
          /\ disk[e].driver = ""
          /\ e \in store

(***************************************************************************)
(* Claims about the names of containers                                    *)
(***************************************************************************)

\* reserveName or generateNewName has returned a name to the request q.
GotName(q) == req[q].pc \in {"named", "registered"}

\* No request but q has begun.
OnlyRequest(q) == \A r \in Requests \ {q} : req[r].pc = "start"

\* C12 (as claimed): after a name reservation that returned without error
\* the name is a path of the name graph and its entry carries the ID of the
\* container the name was reserved for, also when reserveName found a stale
\* entry for the name; and the Name of every container of the store is a
\* path whose entry carries that container's ID. (Stated for a request
\* that no other request runs beside.)
C12_NameIsInGraph ==
    \A q \in Requests :
        OnlyRequest(q) =>
            /\ GotName(q) => graph[req[q].got] = req[q].id
            /\ \A id \in store : graph[mem[id].name] = id

\* The request q is in reserveName, after the Set of line 447 and before
\* the Delete of line 459, or about to call Set.
InReserveName(q) == req[q].pc \in {"set", "getentity", "getcontainer"}

\* The name q asks for is the name of a container of the store, and q has
\* not read another entity for it.
AsksForTakenName(q) ==
    /\ InReserveName(q)
    /\ graph[req[q].name] \in store
    /\ (req[q].pc = "getcontainer" => req[q].entity \in store)

\* C13: every step of a reserveName for a name that the name graph maps to
\* a container of the store leaves the name graph and the store as they
\* are and gives the request no name; it ends in an error, and the step
\* after GetByName found the container ends in the Conflict error.
C13_TakenNameConflicts ==
    [][\A q \in Requests :
          (AsksForTakenName(q) /\ req'[q] # req[q]) =>
             /\ graph' = graph
             /\ store' = store
             /\ req'[q].got = <<>>
             /\ req'[q].pc \in {"getentity", "getcontainer", "failed"}
             /\ (req'[q].pc = "failed" => req'[q].err \in {"conflict", "dberror"})
             /\ (req[q].pc = "getcontainer" =>
                    (req'[q].pc = "failed" /\ req'[q].err = "conflict"))]_vars

\* C13 witness: a request for the name of a container of the store has
\* failed with Conflict, and the entry is still that container's.
C13_Witness ==
    \E q \in Requests :
        /\ req[q].pc = "failed"
        /\ req[q].err = "conflict"
        /\ req[q].got = <<>>
        /\ graph[req[q].name] \in store
        /\ mem[graph[req[q].name]].name = req[q].name

\* C14 (as claimed): of the requests that ask for the same name at most one
\* obtains it, and no two containers of the store carry the same name.
C14_NameUniqueUnderConcurrency ==
    /\ \A q, r \in Requests :
          (q # r /\ GotName(q) /\ GotName(r)) => req[q].got # req[r].got
    /\ \A a, b \in store : a # b => mem[a].name # mem[b].name

\* C15: generateNewName calls Set for at most 6 random names and reaches
\* the fallback only after 6; it goes on to the next attempt only when
\* the name tried has an entry, and ends with the error on any other
\* failure; the fallback name is "/" followed by the first 12 characters
\* of the ID; when it returns a name, the step has added that one entry
\* (name -> id) to the name graph and nothing else, and the name begins
\* with "/".
C15_GenerateNewName ==
    /\ [](\A q \in Requests :
             /\ req[q].attempts <= 6
             /\ (req[q].pc = "fallback" => req[q].attempts = 6))
    /\ [][\A q \in Requests :
             (req[q].pc \in {"gen", "fallback"} /\ req'[q] # req[q]) =>
                /\ (req'[q].pc \in {"gen", "fallback"} =>
                       /\ req[q].pc = "gen"
                       /\ req'[q].attempts = req[q].attempts + 1
                       /\ graph[req'[q].name] # NoEntity
                       /\ graph' = graph)
                /\ (req'[q].pc = "failed" =>
                       /\ graph' = graph
                       /\ req'[q].got = <<>>
                       /\ (req'[q].err = "nonunique" => req[q].pc = "fallback"))
                /\ (req'[q].pc = "named" =>
                       /\ graph[req'[q].got] = NoEntity
                       /\ graph' = [graph EXCEPT ![req'[q].got] = req[q].id]
                       /\ req'[q].got[1] = "/"
                       /\ (req[q].pc = "fallback" =>
                              req'[q].got = <<"/">> \o SubSeq(req[q].id, 1, 12)))]_vars

\* C15 witness: a request got the fallback name after 6 random names had
\* collided.
C15_Witness ==
    \E q \in Requests :
        /\ req[q].pc = "named"
        /\ req[q].asked = <<>>
        /\ req[q].attempts = 6
        /\ req[q].got = <<"/">> \o SubSeq(req[q].id, 1, 12)
        /\ graph[req[q].got] = req[q].id

(***************************************************************************)
(* Claims about the restart policy at boot                                 *)
(***************************************************************************)

\* The restart policy of d asks for a start: `always`, or `on-failure`
\* with an exit code other than 0.
PolicyAsksForStart(d) ==
    \/ policy[d] = "always"
    \/ (policy[d] = "on-failure" /\ mem[d].exitCode # 0)

RestoreReturned == restorePc = "done" /\ restoreResult = "ok"

\* C16 (as claimed): when restore has returned, Start was invoked on a
\* restored container if and only if its restart policy is `always`, or is
\* `on-failure` and its exit code is not 0.
C16_StartIffPolicy ==
    RestoreReturned =>
        \A d \in RegisterCalledOn : mem[d].startInvoked <=> PolicyAsksForStart(d)

\* C16 (amended): when restore has returned, Start was invoked on a
\* container if and only if config.AutoRestart is set, the container is one
\* restore called register on, and its restart policy is `always`, or is
\* `on-failure` and its exit code is not 0.
C16_StartIffPolicyAndAutoRestart ==
    RestoreReturned =>
        \A d \in DirIds :
            mem[d].startInvoked <=>
                (autoRestart /\ d \in RegisterCalledOn /\ PolicyAsksForStart(d))

\* C16 witness: restore has returned with AutoRestart set; Start was
\* invoked on a container with `on-failure` that was found dead (exit code
\* -127) and not on a container with `on-failure` and exit code 0.
C16_Witness ==
    /\ RestoreReturned
    /\ autoRestart
    /\ \E d, e \in RegisterCalledOn :
          /\ policy[d] = "on-failure"
          /\ mem[d].exitCode = DeadExitCode
          /\ mem[d].startInvoked
          /\ policy[e] = "on-failure"
          /\ mem[e].exitCode = 0
          /\ ~mem[e].startInvoked

\* A turn of the loop of AllocatePort is about to call portmapper.Map.
InMapLoop == netJob.kind = "allocate_port" /\ netJob.pc = "loop"

\* C17: allocate_port calls portmapper.Map at most 10 times (a turn starts
\* with i below 10); another turn follows a call only when HostPort is 0
\* and the call failed with ErrPortAlreadyAllocated; with a HostPort the
\* first call is the only one; any other error ends the loop; when the
\* last call failed the job fails with the error of that call and neither
\* the port mapper nor the interface table has changed.
C17_MapRetryProtocol ==
    /\ [](InMapLoop => netJob.i < 10)
    /\ [][InMapLoop =>
            LET again == netJob'.pc = "loop" IN
            /\ again => /\ netJob.hostPort = 0
                        /\ netJob'.err = "allocated"
                        /\ netJob'.i = netJob.i + 1
            /\ netJob.hostPort # 0 => netJob.i = 0 /\ ~again
            /\ netJob'.err \notin {"none", "allocated"} => ~again
            /\ netJob'.err = "none" => netJob'.pc = "append"
            /\ (netJob'.err # "none" /\ ~again) =>
                  /\ netJob'.pc = "done"
                  /\ netJob'.status = "error"
                  /\ netJob'.err \in {"allocated", "other"}
                  /\ UNCHANGED <<mapped, currentInterfaces, ipAllocated>>
       ]_vars

\* Nine calls with HostPort 0 found the port allocated: the tenth is next.
C17_Witness ==
    /\ InMapLoop
    /\ netJob.hostPort = 0
    /\ netJob.i = 9
    /\ netJob.err = "allocated"

\* C18: every step of an allocate_port job leaves the records of the other
\* containers and the mappings made before unchanged; the step that ends
\* the job with success appends exactly one mapping to the record of the
\* container, and every other step of the job, the one that ends a failing
\* job among them, leaves that record unchanged.
C18_FailedPortJobAddsNoMapping ==
    [][netJob'.kind = "allocate_port" =>
         LET id == netJob'.id
             success == netJob'.pc = "done" /\ netJob'.status = "ok"
         IN  /\ \A other \in NetIds \ {id} :
                   currentInterfaces'[other] = currentInterfaces[other]
             /\ \A h \in HostAddrs :
                   mapped[h] # NotMapped => mapped'[h] = mapped[h]
             /\ IF success
                THEN currentInterfaces'[id] =
                        [currentInterfaces[id] EXCEPT
                           !.PortMappings = Append(@, netJob'.host)]
                ELSE currentInterfaces'[id] = currentInterfaces[id]
    ]_vars

\* The last network job was a release_interface that returned success.
ReleaseSucceeded ==
    /\ netJob.kind = "release_interface"
    /\ netJob.pc = "done"
    /\ netJob.status = "ok"

\* C19: a release_interface(id) that returns success leaves no port the
\* record of id listed mapped, leaves the address of the record free in
\* the IP allocator, and leaves the interface table with no record of id.
C19_ReleasedRecordDropped ==
    [][(netJob'.kind = "release_interface" /\ netJob'.status = "ok") =>
          LET record == currentInterfaces[netJob'.id] IN
          /\ \A h \in Range(record.PortMappings) : mapped'[h] = NotMapped
          /\ record.IP \notin ipAllocated'
          /\ currentInterfaces'[netJob'.id] = NoIface
      ]_vars

\* C20: a release_interface for the id of the release_interface that has
\* just returned success returns success too and changes neither the IP
\* allocator nor the port mapper nor the interface table.
C20_SecondReleaseChangesNothing ==
    [][(ReleaseSucceeded /\ netJob'.kind = "release_interface"
                         /\ netJob'.id = netJob.id) =>
          /\ netJob'.status = "ok"
          /\ UNCHANGED <<ipAllocated, mapped, currentInterfaces>>
      ]_vars

\* A container with a mapped port has been released: its record still
\* lists the port, which the second release finds unmapped.
C20_Witness ==
    /\ ReleaseSucceeded
    /\ currentInterfaces[netJob.id].PortMappings # <<>>
    /\ \A h \in Range(currentInterfaces[netJob.id].PortMappings) :
          mapped[h] = NotMapped
    /\ currentInterfaces[netJob.id].IP \notin ipAllocated

\* The ids that hold an interface: the table has their record and the
\* address of the record is reserved.
InterfaceHolders ==
    {id \in NetIds : /\ currentInterfaces[id].present
                     /\ currentInterfaces[id].IP \in ipAllocated}

\* No network job is in the middle of its run.
NetJobReturned == netJob.pc = "done"

\* C21: after any sequence of allocate_interface and release_interface
\* jobs the bridge allocator has as many container addresses reserved as
\* there are ids that hold an interface.
C21_ReservedIPsMatchHolders ==
    NetJobReturned => Cardinality(ipAllocated) = Cardinality(InterfaceHolders)

\* portmapper: the DNAT rules of the DOCKER chain for a host address; Map
\* appends one rule with the mapping and Unmap deletes it.
DNATRules(h) == IF mapped[h] # NotMapped THEN {mapped[h]} ELSE {}

\* C22: after every allocate_port and release_interface job each host
\* address listed in the record of a container has exactly one DNAT rule,
\* which forwards to the address of that record.
C22_ListedMappingHasOneRule ==
    (NetJobReturned /\ netJob.kind \in {"allocate_port", "release_interface"}) =>
       \A id \in NetIds :
          \A h \in Range(currentInterfaces[id].PortMappings) :
             /\ Cardinality(DNATRules(h)) = 1
             /\ \A rule \in DNATRules(h) : rule.ip = currentInterfaces[id].IP

\* No rule is twice in the chain.
NoDuplicates(chain) ==
    \A i, j \in 1..Len(chain) : i # j => chain[i] # chain[j]

\* The last init_networkdriver job succeeded.
InitSucceeded == initJob.status = "ok"

SetupIPTablesSucceeded(job) ==
    /\ job.status # "none"
    /\ job.env.EnableIptables
    /\ job.err \in {"none", "removechain", "newchain"}

\* The bridge-to-bridge rules of the interface in the FORWARD chain.
ICCRules(chain, iface) ==
    {i \in 1..Len(chain) :
       chain[i].iface = iface /\ chain[i].kind \in {"ACCEPT", "DROP"}}

ForwardOrdered(chain, iface) ==
    \E i, j, k \in 1..Len(chain) :
       /\ i < j /\ j < k
       /\ chain[i] = Rule("existing", NoCIDR, iface)
       /\ chain[j] = Rule("outgoing", NoCIDR, iface)
       /\ k \in ICCRules(chain, iface)

\* The FORWARD chain has no rule of the bridge.
NoForwardRules(chain, iface) ==
    \A i \in 1..Len(chain) : chain[i].iface # iface

\* C25: a successful init_networkdriver with iptables enabled, run as the
\* first or after a successful one on a host whose FORWARD chain has no rule of the bridge or has them in the
\* order RELATED,ESTABLISHED, outgoing, bridge-to-bridge, leaves them in
\* that order.
C25_ForwardRuleOrder ==
    [][(/\ initJob.status \in {"none", "ok"}
        /\ initJob'.status = "ok"
        /\ initJob'.env.EnableIptables) =>
          LET iface == BridgeIfaceOf(initJob'.env) IN
          (NoForwardRules(forward, iface) \/ ForwardOrdered(forward, iface))
             => ForwardOrdered(forward', iface)
      ]_vars

\* The existing bridge has another address than the configured one.
BridgeIPDiffers(b, env) ==
    /\ b[BridgeIfaceOf(env)].exists
    /\ env.BridgeIP # NoCIDR
    /\ b[BridgeIfaceOf(env)].addr.ip # env.BridgeIP.ip

\* C26 as stated: an init_networkdriver that finds no bridge interface of
\* the configured name calls createBridge, for the default and for a
\* user-named bridge, and the bridge exists when createBridge returned
\* nil; one that finds a bridge whose IP differs from the configured
\* bridge IP fails.
C26_MissingBridgeCreated ==
    [][initJob'.status # "none" =>
          LET name == BridgeIfaceOf(initJob'.env) IN
          /\ ~bridges[name].exists =>
                /\ initJob'.createBridge # "notcalled"
                /\ initJob'.createBridge = "none" => bridges'[name].exists
          /\ BridgeIPDiffers(bridges, initJob'.env) => initJob'.status = "error"
      ]_vars

\* C26, amended: createBridge is called for a missing bridge only when it
\* is the default one; with a user-named bridge that does not exist the
\* job fails and no bridge is created; one that finds a bridge whose IP
\* differs from the configured bridge IP fails.
C26_MissingDefaultBridgeCreated ==
    [][initJob'.status # "none" =>
          LET name == BridgeIfaceOf(initJob'.env) IN
          /\ (~bridges[name].exists /\ initJob'.env.BridgeIface = "") =>
                /\ initJob'.createBridge # "notcalled"
                /\ initJob'.createBridge = "none" => bridges'[name].exists
          /\ (~bridges[name].exists /\ initJob'.env.BridgeIface # "") =>
                /\ initJob'.createBridge = "notcalled"
                /\ initJob'.status = "error"
                /\ bridges' = bridges
          /\ BridgeIPDiffers(bridges, initJob'.env) => initJob'.status = "error"
      ]_vars

\* The job named the bridge br0, which the host does not have: it failed
\* and the host still has no br0.
C26_Witness ==
    /\ initJob.env.BridgeIface = "br0"
    /\ initJob.status = "error"
    /\ initJob.err = "notfound"
    /\ ~bridges["br0"].exists

\* C27: when netlink.NetworkLinkAddIp failed in createBridge, createBridge
\* returned an error, the init_networkdriver job failed, the bridge was
\* not brought up and no handler is registered.
C27_AddIpFailureFailsInit ==
    initJob.addIpFailed =>
       /\ initJob.createBridge \notin {"notcalled", "none"}
       /\ initJob.status = "error"
       /\ ~bridges[BridgeIfaceOf(initJob.env)].up
       /\ ~netHandlers

\* The boot has completed the step of that name.
BootStepDone(step) == \E i \in 1..(bootPc - 1) : BootOrder[i] = step

\* C28: the pidfile is on disk, and its removal is registered, only when
\* the checks of the OS and of the effective uid have passed; a boot that
\* ended in these checks has left no pidfile.
C28_PidfileAfterChecks ==
    /\ pidfileExists => BootStepDone("checks")
    /\ (\E i \in 1..Len(onShutdown) : onShutdown[i] = "pidfile") =>
          BootStepDone("checks")
    /\ (exited /\ ~BootStepDone("checks")) => ~pidfileExists

\* The later boot steps in the order in which they are to occur.
LaterSteps ==
    <<"network", "graphdb", "execdriver", "restore", "hook", "install",
      "accept">>

\* The place of a step among the later steps, 0 for any other step.
StepRank(step) ==
    IF \E i \in 1..Len(LaterSteps) : LaterSteps[i] = step
    THEN CHOOSE i \in 1..Len(LaterSteps) : LaterSteps[i] = step
    ELSE 0

InBootLog(step) == \E i \in 1..Len(bootLog) : bootLog[i] = step

\* The later steps done so far were done in their order, none twice, and
\* none without all those before it; only the network step may be missing.
BootLogOrdered ==
    /\ \A a, b \in 1..Len(bootLog) :
          (a < b /\ StepRank(bootLog[a]) > 0 /\ StepRank(bootLog[b]) > 0)
              => StepRank(bootLog[a]) < StepRank(bootLog[b])
    /\ \A b \in 1..Len(bootLog) :
          \A i \in 1..(StepRank(bootLog[b]) - 1) :
              \/ LaterSteps[i] = "network"
              \/ \E a \in 1..(b - 1) : bootLog[a] = LaterSteps[i]

\* C29: the boot does the network initialisation (unless disabled), the
\* opening of the name graph, the exec driver, the restore, the shutdown
\* hook, Install and acceptconnections strictly in this order, and once a
\* step has failed and the process has exited no later step runs.
C29_LaterBootOrder ==
    /\ []BootLogOrdered
    /\ [][exited => bootLog' = bootLog]_vars

\* A boot that did every step, the network step included.
C29_Witness ==
    /\ ~exited
    /\ InBootLog("network")
    /\ InBootLog("accept")
    /\ Len(bootLog) = Len(BootOrder)

\* C30: a listener is past the receive on the activate channel, or has
\* returned a connection, only when acceptconnections has run, which is
\* after NewDaemon (its last step is the hook) and Install; a connection is
\* returned only by wrapped.Accept(); and once the channel is closed a
\* waiting Accept can go on to the wrapped listener.
C30_NoConnectionBeforeInstall ==
    /\ [](\A l \in Listeners :
            (ready[l] \/ acceptPc[l] = "wrapped" \/ handed[l] > 0)
                => /\ activated
                   /\ InBootLog("hook")
                   /\ InBootLog("install")
                   /\ InBootLog("accept"))
    /\ [][\A l \in Listeners :
            handed'[l] # handed[l] => acceptPc[l] = "wrapped"]_vars
    /\ [](\A l \in Listeners :
            (activated /\ ~exited /\ acceptPc[l] = "waiting")
                => ENABLED AcceptActivated(l))

\* One listener waited on the channel and then returned a connection while
\* the other is already ready.
C30_Witness ==
    /\ handed["unix"] > 0
    /\ ready["tcp"]
    /\ acceptPc["tcp"] = "wrapped"

\* The rules of the last -I job stand before the chain that job found.
LinkRulesAdded ==
    forward = Reverse(LinkCalls(linkJob.ins.r, BridgeIfaceOf(initJob.env)))
                 \o linkJob.before

LinkInserted == linkJob.run.r.action = "-I" /\ linkJob.run.status = "ok"

LinkUndone ==
    /\ linkJob.undo
    /\ linkJob.run.status = "ok"
    /\ linkJob.ins.status = "ok"

C32_StoreOnlyCleanRegister ==
    \A d \in DirIds :
       /\ (d \in store \/ d \in idIndex) =>
             (mem[d] # NotLoaded /\ regResult[d] = "ok")
       /\ regResult[d] = "error" => (d \notin store /\ d \notin idIndex)

RestoredTwice ==
    firstRestore.done /\ restorePc = "done" /\ restoreResult = "ok"

\* C33: a second restore, run on what the first one left on disk and in
\* the name graph, registers the same containers with the same names,
\* states and exit codes.
C33_RestoreIdempotent == RestoredTwice => RestoreView = firstRestore.view

\* C34: the four handlers are registered only when init_networkdriver has
\* succeeded; after an init that failed, and with the network disabled,
\* they are not, and a job of one of the four names fails for want of a
\* handler exactly when they are not.
C34_HandlersOnlyAfterInit ==
    /\ [](netHandlers <=> initJob.status = "ok")
    /\ [](initJob.status \in {"error", "disabled"} => ~netHandlers)
    /\ [][(netJob' # netJob /\ netJob'.kind \in NetHandlerNames) =>
            (netJob'.status = "nosuchhandler" <=> initJob.status # "ok")]_vars

\* A link job submitted after the init failed in the iptables rules.
C34_Witness ==
    /\ initJob.status = "error"
    /\ initJob.err \in {"nat", "icc", "outgoing", "existing", "newchain"}
    /\ netJob.kind = "link"
    /\ netJob.status = "nosuchhandler"

DaemonHookOver == hookPc = Len(DaemonHookSteps) + 1

\* C35: an error of a step of the daemon's shutdown callback is logged and
\* does not end the callback: when the callback is over, every step after
\* one that returned an error has run, in the order of the code.
C35_HookBestEffort ==
    /\ hookErrors \subseteq Range(shutdownLog)
    /\ DaemonHookOver =>
          \A i, j \in 1..Len(DaemonHookSteps) :
             (i < j /\ DaemonHookSteps[i] \in hookErrors) =>
                \E a, b \in 1..Len(shutdownLog) :
                   /\ a < b
                   /\ shutdownLog[a] = DaemonHookSteps[i]
                   /\ shutdownLog[b] = DaemonHookSteps[j]

\* The callback is over and each of the three calls that can return an
\* error has done so.
C35_Witness ==
    /\ DaemonHookOver
    /\ hookErrors = {"release_ports", "driver_cleanup", "close_db"}

\* C36: the Paused flag of a container changes only in a Pause or Unpause
\* of that container whose driver call succeeded, to paused with the
\* processes frozen and to not paused with the processes thawed; a call
\* whose driver call failed changes no container state and returns the
\* error.
C36_PausedOnlyAfterDriver ==
    /\ [][\A c \in ContainerIds :
            state'[c] # state[c] =>
               /\ pauseJob'.id = c
               /\ ~pauseJob'.driverErr
               /\ ~pauseJob'.err
               /\ pauseJob'.op = "pause" => (state'[c].Paused /\ frozen'[c])
               /\ pauseJob'.op = "unpause" => (~state'[c].Paused /\ ~frozen'[c])]_vars
    /\ [][pauseJob'.driverErr => (state' = state /\ pauseJob'.err)]_vars

\* An Unpause whose driver call failed on a paused container, which stays
\* paused.
C36_Witness ==
    /\ pauseJob.op = "unpause"
    /\ pauseJob.driverErr
    /\ state[pauseJob.id].Paused

\* The step is a release_interface job for a.
ReleaseStepOf(a) ==
    netJob'.kind = "release_interface" /\ netJob'.id = a

\* C37: a release_interface job for a container a leaves alone what
\* belongs to another container b: the address b was given by the job just
\* before stays reserved, and a host port mapped to the address of b, which
\* is not the address in the record of a, stays mapped.
C37_ReleaseTouchesOnlyOwn ==
    [][\A a, b \in NetIds :
         (a # b /\ ReleaseStepOf(a)) =>
            /\ (/\ netJob.kind = "allocate_interface"
                /\ netJob.id = b
                /\ netJob.status = "ok")
                  => currentInterfaces[b].IP \in ipAllocated'
            /\ \A h \in HostAddrs :
                  (/\ currentInterfaces[b].present
                   /\ currentInterfaces[b].IP \in ipAllocated
                   /\ currentInterfaces[a].IP # currentInterfaces[b].IP
                   /\ mapped[h] # NotMapped
                   /\ mapped[h].ip = currentInterfaces[b].IP)
                     => mapped'[h] = mapped[h]]_vars

\* The process has exited at the end of the shutdown the trap started.
ExitedByShutdown == exited /\ shutPc = "done" /\ cleanupCalls > 0

\* C38: when the process exits at the end of the shutdown that SIGINT or
\* SIGTERM started, at whatever point of the boot the signal came, every
\* container that is running has been sent SIGTERM.
C38_RunningContainersGetTerm ==
    ExitedByShutdown =>
       \A c \in ContainerIds : cstate[c] = "running" => gotTerm[c]

\* C39: during restore, Start is invoked only on containers whose register
\* call succeeded; a container whose registration failed is never started.
C39_StartOnlyRegistered ==
    \A d \in DirIds : mem[d].startInvoked => regResult[d] = "ok"

\* A step of an allocate_port job for an id that has no network record.
AllocatePortStepWithoutRecord ==
    /\ netJob' # netJob
    /\ netJob'.kind = "allocate_port"
    /\ ~currentInterfaces[netJob'.id].present

\* C40: allocate_port for a container id that has no network record ends
\* with an error status for that job and changes no allocator, mapper or
\* record state, for tcp and udp as for an unsupported protocol.
C40_AllocatePortWithoutRecord ==
    [][AllocatePortStepWithoutRecord =>
          /\ netJob'.status = "error"
          /\ UNCHANGED <<currentInterfaces, ipAllocated, mapped>>]_vars

====
